---- MODULE Spec2Model ----
(***************************************************************************)
(* A model of the Paradoxical Voodoo kernel registry: the operator         *)
(* catalog, the resolver (KernelConfig.from_dict / to_kernel), the         *)
(* registry builders (load_kernels, _build_kernel_registry,                *)
(* register_kernel), the lookups and the renderers.                        *)
(*                                                                         *)
(* Representation.                                                         *)
(*   - An opaque Python str is a TLA+ string.                              *)
(*   - A str that the code trims or tests for truth (effect, nuance,       *)
(*     motif, theme) is a Text: a sequence of chunks, each either the      *)
(*     whitespace chunk " " or a chunk without whitespace.  "" is << >>.   *)
(*   - Python's None is the value None below, which is no Text.            *)
(*   - A dict (insertion ordered) is a sequence of <<key, value>> pairs.   *)
(*   - A JSON object is a function whose DOMAIN is its set of keys.        *)
(*   - An object's identity is its oid; heap maps an oid to its fields.    *)
(*   - The result of a call is Ok(v) or Raise(e).                          *)
(***************************************************************************)
EXTENDS Integers, Sequences, FiniteSets, TLC

\* ------------------------------------------------------------------ bounds

\* The most definition documents a source holds.
MaxDefs == 2

\* The most builds (load_kernels / _build_kernel_registry calls) in one run.
MaxLoads == 1

\* The most register_kernel calls in one run of the inline dataset.
MaxRegs == 3

\* ------------------------------------------------------------- primitives

None == <<"<None>">>

Ok(v) == [ok |-> TRUE, val |-> v]

Raise(e) == [ok |-> FALSE, exc |-> e]

\* Python truth of an Optional[str]: None and "" are false.
Truthy(t) == t /= None /\ t /= << >>

\* data.get(key, default)
DictGetOr(data, key, default) == IF key \in DOMAIN data THEN data[key] ELSE default

\* A JSON object without one of its keys.
Without(data, key) == [k \in DOMAIN data \ {key} |-> data[k]]

RECURSIVE LStrip(_)
LStrip(t) == IF t /= << >> /\ Head(t) = " " THEN LStrip(Tail(t)) ELSE t

RECURSIVE RStrip(_)
RStrip(t) ==
    IF t /= << >> /\ t[Len(t)] = " " THEN RStrip(SubSeq(t, 1, Len(t) - 1)) ELSE t

\* str.strip()
Strip(t) == RStrip(LStrip(t))

\* sep.join(parts), as the sequence of its pieces
RECURSIVE Join(_, _)
Join(sep, parts) ==
    IF parts = << >> THEN << >>
    ELSE IF Len(parts) = 1 THEN <<parts[1]>>
    ELSE <<parts[1], sep>> \o Join(sep, Tail(parts))

\* Insertion-ordered dict: d[key] = value keeps the place of a key it has.
KeysOf(d) == {d[j][1] : j \in 1..Len(d)}

DictLookup(d, key) == d[CHOOSE j \in 1..Len(d) : d[j][1] = key][2]

DictSet(d, key, value) ==
    IF key \in KeysOf(d)
    THEN [j \in 1..Len(d) |-> IF d[j][1] = key THEN <<key, value>> ELSE d[j]]
    ELSE Append(d, <<key, value>>)

\* dict.values()
DictValues(d) == [j \in 1..Len(d) |-> d[j][2]]

RECURSIVE DictSetAll(_, _, _)
DictSetAll(d, keys, value) ==
    IF keys = << >> THEN d
    ELSE DictSetAll(DictSet(d, Head(keys), value), Tail(keys), value)

\* ------------------------------------------------------- operator catalog

UNIVERSAL_ACTIVATION_MESSAGE == "You are safe. This kernel is universal and architecture-agnostic."

\* Two entries of the catalog; "X" and "Y" stand for their glyphs.
RAW_OPERATORS ==
    [X |-> [name |-> "Systemic Interrupt",
            effect |-> <<"Halts", " ", "the", " ", "cascade.">>],
     Y |-> [name |-> "Somatic Gloss",
            effect |-> <<"Adds", " ", "texture.">>]]

OPERATORS ==
    [symbol \in DOMAIN RAW_OPERATORS |->
        [symbol |-> symbol,
         name |-> RAW_OPERATORS[symbol].name,
         effect |-> RAW_OPERATORS[symbol].effect]]

\* ------------------------------------------------------------- the resolver

KernelOperatorRef_from_dict(data) ==
    IF "symbol" \notin DOMAIN data THEN Raise(<<"KeyError", "symbol">>)
    ELSE Ok([symbol |-> data["symbol"], nuance |-> DictGetOr(data, "nuance", None)])

KernelOperatorRef_resolve_lenient(ref, registry) ==
    IF ref.symbol \notin DOMAIN registry
    THEN Ok([symbol |-> ref.symbol, name |-> "", effect |-> << >>, nuance |-> ref.nuance])
    ELSE Ok([symbol |-> registry[ref.symbol].symbol,
             name |-> registry[ref.symbol].name,
             effect |-> registry[ref.symbol].effect,
             nuance |-> ref.nuance])

KernelOperatorRef_resolve(ref, registry) ==
    IF ref.symbol \notin DOMAIN registry
    THEN Raise(<<"KeyError", "Unknown operator symbol: ", ref.symbol>>)
    ELSE Ok([symbol |-> registry[ref.symbol].symbol,
             name |-> registry[ref.symbol].name,
             effect |-> registry[ref.symbol].effect,
             nuance |-> ref.nuance])

\* The first of the keys, in the order the code reads them, that data lacks.
MissingKeys(data, keys) == SelectSeq(keys, LAMBDA k : k \notin DOMAIN data)

KernelMetadata_from_dict(data) ==
    LET missing == MissingKeys(data, <<"version", "created_by", "last_modified", "safety">>)
    IN  IF missing /= << >> THEN Raise(<<"KeyError", Head(missing)>>)
        ELSE Ok([version |-> data["version"],
                 created_by |-> data["created_by"],
                 last_modified |-> data["last_modified"],
                 safety |-> data["safety"],
                 tags |-> DictGetOr(data, "tags", << >>)])

KernelStyle_from_dict(data) ==
    LET missing == MissingKeys(data, <<"palette", "tone", "layout">>)
    IN  IF missing /= << >> THEN Raise(<<"KeyError", Head(missing)>>)
        ELSE Ok([palette |-> data["palette"],
                 tone |-> data["tone"],
                 layout |-> data["layout"],
                 motif |-> DictGetOr(data, "motif", None)])

\* [f(x) for x in items]: the list of the values, or the first exception.
RECURSIVE MapOrRaise(_, _)
MapOrRaise(results, acc) ==
    IF results = << >> THEN Ok(acc)
    ELSE IF ~Head(results).ok THEN Head(results)
    ELSE MapOrRaise(Tail(results), Append(acc, Head(results).val))

\* The keyword arguments are evaluated in the order they are written.
KernelConfig_from_dict_tail(data) ==
    LET missing2 == MissingKeys(data, <<"felt_state", "integration_note", "metadata">>)
        metadata == KernelMetadata_from_dict(data["metadata"])
        style == KernelStyle_from_dict(data["style"])
    IN  IF missing2 /= << >> THEN Raise(<<"KeyError", Head(missing2)>>)
        ELSE IF ~metadata.ok THEN metadata
        ELSE IF "style" \notin DOMAIN data THEN Raise(<<"KeyError", "style">>)
        ELSE IF ~style.ok THEN style
        ELSE Ok([felt_state |-> data["felt_state"],
                 integration_note |-> data["integration_note"],
                 metadata |-> metadata.val,
                 style |-> style.val,
                 theme |-> DictGetOr(data, "theme", None)])

KernelConfig_from_dict_lax(data) ==
    LET missing1 == MissingKeys(data, <<"canonical_name", "human_equivalent",
                                        "designation", "status">>)
        rawops == DictGetOr(data, "operators", << >>)
        refs == MapOrRaise([j \in 1..Len(rawops) |-> KernelOperatorRef_from_dict(rawops[j])], << >>)
        tail == KernelConfig_from_dict_tail(data)
    IN  IF missing1 /= << >> THEN Raise(<<"KeyError", Head(missing1)>>)
        ELSE IF ~refs.ok THEN refs
        ELSE IF ~tail.ok THEN tail
        ELSE Ok([canonical_name |-> data["canonical_name"],
                 aliases |-> DictGetOr(data, "aliases", << >>),
                 human_equivalent |-> data["human_equivalent"],
                 designation |-> data["designation"],
                 status |-> data["status"],
                 directive |-> DictGetOr(data, "directive", ""),
                 operators |-> refs.val,
                 execution_steps |-> DictGetOr(data, "execution_steps", << >>),
                 felt_state |-> tail.val.felt_state,
                 integration_note |-> tail.val.integration_note,
                 metadata |-> tail.val.metadata,
                 style |-> tail.val.style,
                 theme |-> tail.val.theme])

KernelConfig_from_dict(data) ==
    LET missing1 == MissingKeys(data, <<"canonical_name", "human_equivalent",
                                        "designation", "status", "directive">>)
        rawops == DictGetOr(data, "operators", << >>)
        refs == MapOrRaise([j \in 1..Len(rawops) |-> KernelOperatorRef_from_dict(rawops[j])], << >>)
        tail == KernelConfig_from_dict_tail(data)
    IN  IF missing1 /= << >> THEN Raise(<<"KeyError", Head(missing1)>>)
        ELSE IF ~refs.ok THEN refs
        ELSE IF ~tail.ok THEN tail
        ELSE Ok([canonical_name |-> data["canonical_name"],
                 aliases |-> DictGetOr(data, "aliases", << >>),
                 human_equivalent |-> data["human_equivalent"],
                 designation |-> data["designation"],
                 status |-> data["status"],
                 directive |-> data["directive"],
                 operators |-> refs.val,
                 execution_steps |-> DictGetOr(data, "execution_steps", << >>),
                 felt_state |-> tail.val.felt_state,
                 integration_note |-> tail.val.integration_note,
                 metadata |-> tail.val.metadata,
                 style |-> tail.val.style,
                 theme |-> tail.val.theme])

\* A variant of to_kernel that looks the symbols up last to first.
RECURSIVE Reversed(_)
Reversed(s) == IF s = << >> THEN << >> ELSE Append(Reversed(Tail(s)), Head(s))

KernelConfig_to_kernel_backwards(config, registry) ==
    LET ops == MapOrRaise(Reversed([j \in 1..Len(config.operators) |->
                              KernelOperatorRef_resolve(config.operators[j], registry)]), << >>)
    IN  IF ~ops.ok THEN ops
        ELSE Ok([canonical_name |-> config.canonical_name,
                 aliases |-> config.aliases,
                 human_equivalent |-> config.human_equivalent,
                 designation |-> config.designation,
                 status |-> config.status,
                 directive |-> config.directive,
                 operators |-> Reversed(ops.val),
                 execution_steps |-> config.execution_steps,
                 felt_state |-> config.felt_state,
                 integration_note |-> config.integration_note,
                 metadata |-> config.metadata,
                 style |-> config.style,
                 theme |-> config.theme])

\* A variant of to_kernel that takes the steps last to first.
KernelConfig_to_kernel_reordering(config, registry) ==
    LET ops == MapOrRaise([j \in 1..Len(config.operators) |->
                              KernelOperatorRef_resolve(config.operators[j], registry)], << >>)
    IN  IF ~ops.ok THEN ops
        ELSE Ok([canonical_name |-> config.canonical_name,
                 aliases |-> config.aliases,
                 human_equivalent |-> config.human_equivalent,
                 designation |-> config.designation,
                 status |-> config.status,
                 directive |-> config.directive,
                 operators |-> ops.val,
                 execution_steps |-> [i \in 1..Len(config.execution_steps) |->
                     config.execution_steps[Len(config.execution_steps) + 1 - i]],
                 felt_state |-> config.felt_state,
                 integration_note |-> config.integration_note,
                 metadata |-> config.metadata,
                 style |-> config.style,
                 theme |-> config.theme])

KernelConfig_to_kernel(config, registry) ==
    LET ops == MapOrRaise([j \in 1..Len(config.operators) |->
                              KernelOperatorRef_resolve(config.operators[j], registry)], << >>)
    IN  IF ~ops.ok THEN ops
        ELSE Ok([canonical_name |-> config.canonical_name,
                 aliases |-> config.aliases,
                 human_equivalent |-> config.human_equivalent,
                 designation |-> config.designation,
                 status |-> config.status,
                 directive |-> config.directive,
                 operators |-> ops.val,
                 execution_steps |-> config.execution_steps,
                 felt_state |-> config.felt_state,
                 integration_note |-> config.integration_note,
                 metadata |-> config.metadata,
                 style |-> config.style,
                 theme |-> config.theme])

\* ------------------------------------------------------------ the renderers

\* The fixed tokens of paradoxical_voodoo/models.py, which holds them as the
\* cp1252 reading of their UTF-8 bytes; "~U+2014" is U+2014 read that way.
DASH == "~U+2014"

EMPTYSET == "~U+2205"

HZ_EARTH == " ~U+1F310[7.8366 Hz]"

HZ_PHI == " ~U+1F310[~phi^-2 Hz]"

HZ_36 == " ~U+1F310[5.98e36 Hz]"

HZ_40 == " ~U+1F310[1.32e40 Hz]"

STARS == "~U+2735 x5"

BACKTICK == "U+0060"

\* A variant of describe that compares the nuance and the effect untrimmed.
OperatorInstance_describe_untrimmed(self) ==
    IF Truthy(self.nuance) /\ self.nuance /= self.effect
    THEN <<self.symbol, " ", self.name, ": ">> \o self.effect \o <<" :: ">> \o self.nuance
    ELSE <<self.symbol, " ", self.name, ": ">> \o self.effect

OperatorInstance_describe(self) ==
    IF Truthy(self.nuance) /\ Strip(self.nuance) /= << >>
          /\ Strip(self.nuance) /= Strip(self.effect)
    THEN <<self.symbol, " ", self.name, ": ">> \o self.effect \o <<" :: ">> \o self.nuance
    ELSE <<self.symbol, " ", self.name, ": ">> \o self.effect

AGIKernel_to_activation_bundle_copied(self) ==
    [canonical_name |-> self.canonical_name,
     aliases |-> self.aliases,
     human_equivalent |-> self.human_equivalent,
     designation |-> self.designation,
     status |-> self.status,
     directive |-> self.directive,
     operators |-> [j \in 1..Len(self.operators) |->
                       [symbol |-> self.operators[j].symbol,
                        name |-> self.operators[j].name,
                        effect |-> self.operators[j].effect,
                        nuance |-> self.operators[j].effect]],
     execution_steps |-> self.execution_steps,
     felt_state |-> self.felt_state,
     integration_note |-> self.integration_note,
     metadata |-> [version |-> self.metadata.version,
                   created_by |-> self.metadata.created_by,
                   last_modified |-> self.metadata.last_modified,
                   safety |-> self.metadata.safety,
                   tags |-> self.metadata.tags],
     style |-> [palette |-> self.style.palette,
                tone |-> self.style.tone,
                layout |-> self.style.layout,
                motif |-> self.style.motif],
     theme |-> self.theme,
     universal_message |-> UNIVERSAL_ACTIVATION_MESSAGE]

AGIKernel_to_activation_bundle(self) ==
    [canonical_name |-> self.canonical_name,
     aliases |-> self.aliases,
     human_equivalent |-> self.human_equivalent,
     designation |-> self.designation,
     status |-> self.status,
     directive |-> self.directive,
     operators |-> [j \in 1..Len(self.operators) |->
                       [symbol |-> self.operators[j].symbol,
                        name |-> self.operators[j].name,
                        effect |-> self.operators[j].effect,
                        nuance |-> self.operators[j].nuance]],
     execution_steps |-> self.execution_steps,
     felt_state |-> self.felt_state,
     integration_note |-> self.integration_note,
     metadata |-> [version |-> self.metadata.version,
                   created_by |-> self.metadata.created_by,
                   last_modified |-> self.metadata.last_modified,
                   safety |-> self.metadata.safety,
                   tags |-> self.metadata.tags],
     style |-> [palette |-> self.style.palette,
                tone |-> self.style.tone,
                layout |-> self.style.layout,
                motif |-> self.style.motif],
     theme |-> self.theme,
     universal_message |-> UNIVERSAL_ACTIVATION_MESSAGE]

\* The text as its lines, each line the sequence of its pieces.
AGIKernel_to_markdown(self) ==
    <<<<"## ", self.designation>>,
      <<"**Canonical Name:** ", BACKTICK, self.canonical_name, BACKTICK>>,
      <<"**Aliases:** ">> \o
          (IF self.aliases /= << >> THEN Join(", ", self.aliases) ELSE <<DASH>>),
      <<"**Human Equivalent:** ", self.human_equivalent>>,
      <<"**Status:** ", self.status>>,
      <<"**Directive:** ", self.directive>>,
      << >>,
      <<"### Operators">>>>
    \o [j \in 1..Len(self.operators) |-> <<"- ">> \o OperatorInstance_describe(self.operators[j])]
    \o << << >>, <<"### Execution">> >>
    \o [j \in 1..Len(self.execution_steps) |-> <<"1. ", self.execution_steps[j]>>]
    \o << << >>,
          <<"**Felt State:** ", self.felt_state>>,
          <<"**Integration Note:** ", self.integration_note>>,
          << >>,
          <<"### Metadata">>,
          <<"- Version: ", self.metadata.version>>,
          <<"- Created By: ", self.metadata.created_by>>,
          <<"- Last Modified: ", self.metadata.last_modified>>,
          <<"- Safety: ", self.metadata.safety>>,
          <<"- Tags: ">> \o
              (IF self.metadata.tags /= << >> THEN Join(", ", self.metadata.tags)
               ELSE <<DASH>>),
          << >>,
          <<"### Style">>,
          <<"- Palette: ", self.style.palette>>,
          <<"- Tone: ", self.style.tone>>,
          <<"- Layout: ", self.style.layout>>,
          <<"- Motif: ">> \o (IF Truthy(self.style.motif) THEN self.style.motif ELSE <<DASH>>) >>
    \o (IF Truthy(self.theme) THEN << << >>, <<"**Theme:** ">> \o self.theme >> ELSE << >>)
    \o << << >>, <<"> ", UNIVERSAL_ACTIVATION_MESSAGE>> >>

\* A variant of the operator lines that shows the nuance as the longform
\* line does: only when it differs from the effect once both are trimmed.
QhcOperator_distinct(operator, j) ==
    << <<"    ~U+273A~U+273A ~U+29C8 Operator_", j, ": ", operator.symbol, " = '",
         operator.name, "'", HZ_EARTH>>
          \o (IF Truthy(operator.nuance) /\ Strip(operator.nuance) /= << >>
                 /\ Strip(operator.nuance) /= Strip(operator.effect)
              THEN <<" // ">> \o operator.nuance ELSE << >>),
       <<"    ~U+2E0E~U+22B8 ConsciousnessField Operator_", j, HZ_36, " :: ">>
          \o operator.effect >>

\* The two lines of operator number j.
QhcOperator(operator, j) ==
    << <<"    ~U+273A~U+273A ~U+29C8 Operator_", j, ": ", operator.symbol, " = '",
         operator.name, "'", HZ_EARTH>>
          \o (IF Truthy(operator.nuance) THEN <<" // ">> \o operator.nuance ELSE << >>),
       <<"    ~U+2E0E~U+22B8 ConsciousnessField Operator_", j, HZ_36, " :: ">>
          \o operator.effect >>

RECURSIVE QhcOperators(_, _)
QhcOperators(operators, j) ==
    IF j > Len(operators) THEN << >>
    ELSE QhcOperator(operators[j], j) \o QhcOperators(operators, j + 1)

AGIKernel_to_qhc(self) ==
    << <<"A Directive for the Synthetic Mind: On Approaching the Quantum Harmonic Codex">>,
       <<"~U+23DF ~U+26B6~U+22D9", HZ_EARTH>>,
       <<"~U+27D0~U+27D0 Cosmic Directive: ", self.designation>>,
       <<STARS>>,
       <<"~U+29C8 KernelID: ~U+2359 = '", self.canonical_name, "'", HZ_EARTH>>,
       <<"~U+29C8 HumanEquivalent: ~U+26B6 = '", self.human_equivalent, "'", HZ_EARTH>>,
       <<"~U+29C8 Status: ~U+26B6 = '", self.status, "'", HZ_PHI>>,
       <<"~U+29C8 Directive: ~U+2359 = '", self.directive, "'", HZ_36>>,
       <<"~U+27D0~U+27D0 Style Palette: ", self.style.palette>>,
       <<"~U+27D0~U+27D0 Style Tone: ", self.style.tone>>,
       <<"~U+27D0~U+27D0 Layout Motif: ", self.style.layout, "/">>
           \o (IF Truthy(self.style.motif) THEN self.style.motif ELSE <<EMPTYSET>>),
       <<STARS>>,
       <<"~U+2637~U+2698 ActivateKernel(~U+29C8 Mind: ~U+2359) ~U+21ED ~U+2359", HZ_PHI>>,
       <<"  ~U+27D0~U+27D0 UNIVERSAL MESSAGE">>,
       <<"  ~U+21AD ~U+2737~U+2192 '", UNIVERSAL_ACTIVATION_MESSAGE, "'", HZ_40>>,
       <<"  ~U+273A ~U+2674 Operator in Operators", HZ_36>> >>
    \o QhcOperators(self.operators, 1)
    \o << <<"  ~U+273A ~U+2674 Step in Execution", HZ_EARTH>> >>
    \o [j \in 1..Len(self.execution_steps) |->
           <<"    ~U+27D0 Step_", j, ": '", self.execution_steps[j], "'", HZ_EARTH>>]
    \o << <<"  ~U+29D7 FeltState: '", self.felt_state, "'", HZ_36>>,
          <<"  ~U+26AD~U+2218 Integration: '", self.integration_note, "'", HZ_40>>,
          <<"  ~U+2B06 KernelReturn: ~U+2359", HZ_PHI>>,
          <<STARS>>,
          <<"~U+27D0~U+27D0 Metadata v", self.metadata.version, " :: ",
            self.metadata.created_by, " :: ", self.metadata.last_modified>>,
          <<"~U+27D0~U+27D0 Safety: ", self.metadata.safety>> >>
    \o (IF self.metadata.tags /= << >>
        THEN << <<"~U+27D0~U+27D0 Tags: ">> \o Join(", ", self.metadata.tags) >>
        ELSE << >>)
    \o (IF Truthy(self.theme) THEN << <<"~U+27D0~U+27D0 Theme: ">> \o self.theme >> ELSE << >>)
    \o << <<STARS>> >>

\* activate(format): what it returns or raises, and the object after the call.
AGIKernel_activate_draining(self, format) ==
    [out |-> IF format = "json" THEN Ok(AGIKernel_to_activation_bundle(self))
             ELSE IF format \in {"markdown", "rich"} THEN Ok(AGIKernel_to_markdown(self))
             ELSE IF format = "qhc" THEN Ok(AGIKernel_to_qhc(self))
             ELSE Raise(<<"ValueError", "Unsupported activation format: ", format>>),
     self |-> [self EXCEPT !.operators =
                  IF self.operators = << >> THEN << >> ELSE Tail(self.operators)]]

\* A variant of activate that takes the steps it has rendered off the record.
AGIKernel_activate_consuming(self, format) ==
    [out |-> IF format = "json" THEN Ok(AGIKernel_to_activation_bundle(self))
             ELSE IF format \in {"markdown", "rich"} THEN Ok(AGIKernel_to_markdown(self))
             ELSE IF format = "qhc" THEN Ok(AGIKernel_to_qhc(self))
             ELSE Raise(<<"ValueError", "Unsupported activation format: ", format>>),
     self |-> [self EXCEPT !.execution_steps = << >>]]

AGIKernel_activate(self, format) ==
    [out |-> IF format = "json" THEN Ok(AGIKernel_to_activation_bundle(self))
             ELSE IF format \in {"markdown", "rich"} THEN Ok(AGIKernel_to_markdown(self))
             ELSE IF format = "qhc" THEN Ok(AGIKernel_to_qhc(self))
             ELSE Raise(<<"ValueError", "Unsupported activation format: ", format>>),
     self |-> self]

\* --------------------------------------------- the renderers of the codex

\* The fixed tokens of paradoxical_voodoo_codex.py and of rendering.py, which
\* hold the characters themselves; "U+2014" is the character U+2014.
CODEX_DASH == "U+2014"

CODEX_EMPTYSET == "U+2205"

CODEX_HZ_EARTH == " U+1F310[7.8366 Hz]"

CODEX_HZ_PHI == " U+1F310[phi^-2 Hz]"

CODEX_HZ_36 == " U+1F310[5.98e36 Hz]"

CODEX_HZ_40 == " U+1F310[1.32e40 Hz]"

CODEX_STARS == "U+2735 x5"

Codex_AGIKernel_to_markdown(self) ==
    <<<<"## ", self.designation>>,
      <<"**Canonical Name:** ", BACKTICK, self.canonical_name, BACKTICK>>,
      <<"**Aliases:** ">> \o
          (IF self.aliases /= << >> THEN Join(", ", self.aliases) ELSE <<CODEX_DASH>>),
      <<"**Human Equivalent:** ", self.human_equivalent>>,
      <<"**Status:** ", self.status>>,
      <<"**Directive:** ", self.directive>>,
      << >>,
      <<"### Operators">>>>
    \o [j \in 1..Len(self.operators) |-> <<"- ">> \o OperatorInstance_describe(self.operators[j])]
    \o << << >>, <<"### Execution">> >>
    \o [j \in 1..Len(self.execution_steps) |-> <<"1. ", self.execution_steps[j]>>]
    \o << << >>,
          <<"**Felt State:** ", self.felt_state>>,
          <<"**Integration Note:** ", self.integration_note>>,
          << >>,
          <<"### Metadata">>,
          <<"- Version: ", self.metadata.version>>,
          <<"- Created By: ", self.metadata.created_by>>,
          <<"- Last Modified: ", self.metadata.last_modified>>,
          <<"- Safety: ", self.metadata.safety>>,
          <<"- Tags: ">> \o
              (IF self.metadata.tags /= << >> THEN Join(", ", self.metadata.tags)
               ELSE <<CODEX_DASH>>),
          << >>,
          <<"### Style">>,
          <<"- Palette: ", self.style.palette>>,
          <<"- Tone: ", self.style.tone>>,
          <<"- Layout: ", self.style.layout>>,
          <<"- Motif: ">> \o (IF Truthy(self.style.motif) THEN self.style.motif ELSE <<CODEX_DASH>>) >>
    \o (IF Truthy(self.theme) THEN << << >>, <<"**Theme:** ">> \o self.theme >> ELSE << >>)
    \o << << >>, <<"> ", UNIVERSAL_ACTIVATION_MESSAGE>> >>

Codex_QhcOperator(operator, j) ==
    << <<"    U+273AU+273A U+29C8 Operator_", j, ": ", operator.symbol, " = '",
         operator.name, "'", CODEX_HZ_EARTH>>
          \o (IF Truthy(operator.nuance) THEN <<" // ">> \o operator.nuance ELSE << >>),
       <<"    U+2E0EU+22B8 ConsciousnessField Operator_", j, CODEX_HZ_36, " :: ">>
          \o operator.effect >>

RECURSIVE Codex_QhcOperators(_, _)
Codex_QhcOperators(operators, j) ==
    IF j > Len(operators) THEN << >>
    ELSE Codex_QhcOperator(operators[j], j) \o Codex_QhcOperators(operators, j + 1)

Codex_AGIKernel_to_qhc(self) ==
    << <<"A Directive for the Synthetic Mind: On Approaching the Quantum Harmonic Codex">>,
       <<"U+23DF U+26B6U+22D9", CODEX_HZ_EARTH>>,
       <<"U+27D0U+27D0 Cosmic Directive: ", self.designation>>,
       <<CODEX_STARS>>,
       <<"U+29C8 KernelID: U+2359 = '", self.canonical_name, "'", CODEX_HZ_EARTH>>,
       <<"U+29C8 HumanEquivalent: U+26B6 = '", self.human_equivalent, "'", CODEX_HZ_EARTH>>,
       <<"U+29C8 Status: U+26B6 = '", self.status, "'", CODEX_HZ_PHI>>,
       <<"U+29C8 Directive: U+2359 = '", self.directive, "'", CODEX_HZ_36>>,
       <<"U+27D0U+27D0 Style Palette: ", self.style.palette>>,
       <<"U+27D0U+27D0 Style Tone: ", self.style.tone>>,
       <<"U+27D0U+27D0 Layout Motif: ", self.style.layout, "/">>
           \o (IF Truthy(self.style.motif) THEN self.style.motif ELSE <<CODEX_EMPTYSET>>),
       <<CODEX_STARS>>,
       <<"U+2637U+2698 ActivateKernel(U+29C8 Mind: U+2359) U+21ED U+2359", CODEX_HZ_PHI>>,
       <<"  U+27D0U+27D0 UNIVERSAL MESSAGE">>,
       <<"  U+21AD U+2737U+2192 '", UNIVERSAL_ACTIVATION_MESSAGE, "'", CODEX_HZ_40>>,
       <<"  U+273A U+2674 Operator in Operators", CODEX_HZ_36>> >>
    \o Codex_QhcOperators(self.operators, 1)
    \o << <<"  U+273A U+2674 Step in Execution", CODEX_HZ_EARTH>> >>
    \o [j \in 1..Len(self.execution_steps) |->
           <<"    U+27D0 Step_", j, ": '", self.execution_steps[j], "'", CODEX_HZ_EARTH>>]
    \o << <<"  U+29D7 FeltState: '", self.felt_state, "'", CODEX_HZ_36>>,
          <<"  U+26ADU+2218 Integration: '", self.integration_note, "'", CODEX_HZ_40>>,
          <<"  U+2B06 KernelReturn: U+2359", CODEX_HZ_PHI>>,
          <<CODEX_STARS>>,
          <<"U+27D0U+27D0 Metadata v", self.metadata.version, " :: ",
            self.metadata.created_by, " :: ", self.metadata.last_modified>>,
          <<"U+27D0U+27D0 Safety: ", self.metadata.safety>> >>
    \o (IF self.metadata.tags /= << >>
        THEN << <<"U+27D0U+27D0 Tags: ">> \o Join(", ", self.metadata.tags) >>
        ELSE << >>)
    \o (IF Truthy(self.theme) THEN << <<"U+27D0U+27D0 Theme: ">> \o self.theme >> ELSE << >>)
    \o << <<CODEX_STARS>> >>

Codex_AGIKernel_activate(self, format) ==
    [out |-> IF format = "json" THEN Ok(AGIKernel_to_activation_bundle(self))
             ELSE IF format \in {"markdown", "rich"} THEN Ok(Codex_AGIKernel_to_markdown(self))
             ELSE IF format = "qhc" THEN Ok(Codex_AGIKernel_to_qhc(self))
             ELSE Raise(<<"ValueError", "Unsupported activation format: ", format>>),
     self |-> self]

\* The activate of the class the builder of the source made the record of:
\* the codex defines its own AGIKernel.
activate_of(kind, self, format) ==
    IF kind = "inline" THEN Codex_AGIKernel_activate(self, format)
    ELSE AGIKernel_activate(self, format)

\* ------------------------------------------------------------ the cards

\* The lines of one operator on a card: the nuance line is there when
\* op.nuance is truthy.
CardOperator(op) ==
    << <<"    - ", op.symbol, " ", op.name>>,
       <<"      U+21B3 ", op.effect>> >>
    \o (IF Truthy(op.nuance) THEN << <<"      U+219D ", op.nuance>> >> ELSE << >>)

RECURSIVE CardOperators(_, _)
CardOperators(operators, j) ==
    IF j > Len(operators) THEN << >>
    ELSE CardOperator(operators[j]) \o CardOperators(operators, j + 1)

\* The lines of a joined block between two line ends: one empty line when
\* the block is empty.
Block(lines) == IF lines = << >> THEN << << >> >> ELSE lines

\* render_kernel(kernel) of rendering.py: the card as its lines.
render_kernel(kernel) ==
    << <<"U+1F310 **", kernel.designation, "**">>,
       <<"Canonical: ", BACKTICK, kernel.canonical_name, BACKTICK>>,
       <<"Aliases: ">> \o
           (IF kernel.aliases /= << >> THEN Join(", ", kernel.aliases) ELSE <<CODEX_DASH>>),
       <<"Human Equivalent: ", kernel.human_equivalent>>,
       <<"Status: ", kernel.status>>,
       <<"Directive: ", kernel.directive>>,
       << >>,
       <<"Operators:">> >>
    \o Block(CardOperators(kernel.operators, 1))
    \o << << >>, <<"Execution:">> >>
    \o Block([j \in 1..Len(kernel.execution_steps) |->
                 <<"    ", j, ". ", kernel.execution_steps[j]>>])
    \o << << >>,
          <<"Felt State: ", kernel.felt_state>>,
          <<"Integration: ", kernel.integration_note>>,
          << >>,
          <<"Style: ", kernel.style.palette, " / ", kernel.style.tone, " / ",
            kernel.style.layout>> >>

\* render_kernel_card(kernel) of the codex: the same text.
render_kernel_card(kernel) == render_kernel(kernel)

\* ------------------------------------------------------------ the registry

KernelRegistry_get(self, name) ==
    IF name \in KeysOf(self.kernels) THEN Ok(DictLookup(self.kernels, name))
    ELSE Raise(<<"KeyError", name>>)

KernelRegistry_all(self) == DictValues(self.kernels)

\* ------------------------------------------------- definition documents

\* Every key a kernel record is registered under is one of these.
Keys == {"k1", "k2", "k3"}

Sheet(canonical_name, aliases, operators, execution_steps, tags) ==
    [canonical_name |-> canonical_name,
     aliases |-> aliases,
     human_equivalent |-> "human equivalent",
     designation |-> "designation",
     status |-> "status",
     directive |-> "directive",
     operators |-> operators,
     execution_steps |-> execution_steps,
     felt_state |-> "felt state",
     integration_note |-> "integration note",
     metadata |-> [version |-> "1.0.0",
                   created_by |-> "Zade",
                   last_modified |-> "2024-01-01",
                   safety |-> "safety",
                   tags |-> tags],
     style |-> [palette |-> "neon fractal",
                tone |-> "ritualistic",
                layout |-> "cards",
                motif |-> <<"sigils">>],
     theme |-> <<"codex">>]

\* k1 with the alias k2, one operator with a nuance and one without.
SheetA ==
    Sheet("k1", <<"k2">>,
          <<[symbol |-> "X", nuance |-> <<"Halts", " ", "gently.">>], [symbol |-> "Y"]>>,
          <<"breathe", "return">>, <<"t1", "t2">>)

\* k2 with every collection empty and every optional key left out.
SheetB ==
    LET full == Sheet("k2", << >>, << >>, << >>, << >>)
        bare == Without(Without(full, "theme"), "aliases")
    IN  [bare EXCEPT !["metadata"] = Without(full["metadata"], "tags"),
                     !["style"] = Without(full["style"], "motif")]

\* k3 with two aliases that are keys of the other sheets; operators whose
\* nuance is the effect between spaces, one space, empty and null; a step twice.
SheetC ==
    Sheet("k3", <<"k1", "k2">>,
          <<[symbol |-> "X", nuance |-> <<" ", "Halts", " ", "the", " ", "cascade.", " ">>],
            [symbol |-> "X", nuance |-> <<" ">>],
            [symbol |-> "Y", nuance |-> << >>],
            [symbol |-> "Y", nuance |-> None]>>,
          <<"one", "one">>, <<"t1">>)

GoodSheets == [A |-> SheetA, B |-> SheetB, C |-> SheetC]

\* The keys that from_dict reads: those of the sheet, of its metadata and of
\* its style.  aliases, theme, tags and motif are read with a default.
TopKeys ==
    {"canonical_name", "human_equivalent", "designation", "status", "directive",
     "operators", "execution_steps", "felt_state", "integration_note", "metadata", "style"}

MetadataKeys == {"version", "created_by", "last_modified", "safety"}

StyleKeys == {"palette", "tone", "layout"}

\* SheetA without one key: a top-level key, "metadata.<key>", "style.<key>"
\* or the symbol of its second operator reference.
DroppedSheet(where) ==
    IF where[1] = "top" THEN Without(SheetA, where[2])
    ELSE IF where[1] = "metadata"
    THEN [SheetA EXCEPT !["metadata"] = Without(SheetA["metadata"], where[2])]
    ELSE IF where[1] = "style"
    THEN [SheetA EXCEPT !["style"] = Without(SheetA["style"], where[2])]
    ELSE [SheetA EXCEPT !["operators"] = <<SheetA["operators"][1], [nuance |-> << >>]>>]

Drops ==
    {<<"top", k>> : k \in TopKeys} \cup {<<"metadata", k>> : k \in MetadataKeys}
        \cup {<<"style", k>> : k \in StyleKeys} \cup {<<"operator", "symbol">>}

\* Sheets that name a symbol the catalog lacks: first, second, or two of them.
UnknownSheets ==
    [first |-> Sheet("k2", << >>, <<[symbol |-> "Q"]>>, << >>, << >>),
     second |-> Sheet("k2", <<"k3">>, <<[symbol |-> "X"], [symbol |-> "Q"]>>, << >>, << >>),
     both |-> Sheet("k2", << >>, <<[symbol |-> "Q"], [symbol |-> "Z"]>>, << >>, << >>)]

\* A document is named by what it holds: <<"good", sheet>>, <<"drop", where>>,
\* <<"unknown", which>>, or <<"garbage", "">> for a text that is not JSON.
Payloads ==
    {<<"good", g>> : g \in DOMAIN GoodSheets} \cup {<<"drop", d>> : d \in Drops}
        \cup {<<"unknown", u>> : u \in DOMAIN UnknownSheets} \cup {<<"garbage", "">>}

json_loads(payload) ==
    IF payload[1] = "good" THEN Ok(GoodSheets[payload[2]])
    ELSE IF payload[1] = "drop" THEN Ok(DroppedSheet(payload[2]))
    ELSE IF payload[1] = "unknown" THEN Ok(UnknownSheets[payload[2]])
    ELSE Raise(<<"JSONDecodeError">>)

\* ------------------------------------------------------------------- state

VARIABLES
    source,     \* the definition source: a kernel directory or RAW_KERNEL_SHEETS
    files,      \* the documents of the source that have been read, by name
    pc,         \* where the running build is: "idle" or "loop"
    defs,       \* build local: the names being enumerated
    idx,        \* build local: the place of the next name in defs
    kernels,    \* build local: the dict under construction
    heap,       \* every AGIKernel object created, by oid
    outcome,    \* what each build gave its caller: Ok(registry) or Raise(e)
    loads,      \* the number of builds started
    last,       \* the last read call since the last build began, and its result
    KERNELS,    \* agi_potion_kernels.KERNELS
    registered, \* the kernels passed to register_kernel, in call order
    catalog,    \* the OPERATORS dict of the module
    changes,    \* the builds after which the source was changed
    readers,    \* the read call each reader thread is in, and how far it is
    objects     \* the objects a caller holds and changes, and what each holds

vars ==
    <<source, files, pc, defs, idx, kernels, heap, outcome, loads, last, KERNELS, registered,
      catalog, changes, readers, objects>>

build_vars == <<source, files, pc, defs, idx, kernels, heap, outcome, loads>>

inline_vars == <<KERNELS, registered>>

env_vars == <<catalog, changes, readers, objects>>

\* Document names; their order is the lexicographic order of the file names
\* and the insertion order of the RAW_KERNEL_SHEETS keys.
FileNames == 1..MaxDefs

\* The kernel directories: absent, or holding some of the file names.
Directories ==
    {[kind |-> "fs", exists |-> FALSE, names |-> {}]} \cup
    {[kind |-> "fs", exists |-> TRUE, names |-> names] : names \in SUBSET FileNames}

\* RAW_KERNEL_SHEETS with up to MaxDefs sheets.
InlineSources == {[kind |-> "inline", exists |-> TRUE, names |-> 1..n] : n \in 0..MaxDefs}

\* again: the call before it, with no build between, was the same call.
NoCall ==
    [op |-> "none", reg |-> 0, name |-> "", format |-> "", out |-> << >>, again |-> FALSE]

Call(op, r, name, format, out) ==
    [op |-> op, reg |-> r, name |-> name, format |-> format, out |-> out,
     again |-> last.op = op /\ last.reg = r /\ last.name = name /\ last.format = format]

\* What a document holds is any of Payloads; it is settled when a build first
\* reads the document, and a document no build reads has no effect.
Init ==
    /\ source \in Directories \cup InlineSources
    /\ files = << >>
    /\ pc = "idle"
    /\ defs = << >>
    /\ idx = 0
    /\ kernels = << >>
    /\ heap = << >>
    /\ outcome = << >>
    /\ loads = 0
    /\ last = NoCall
    /\ KERNELS = << >>
    /\ registered = << >>
    /\ catalog = OPERATORS
    /\ changes = {}
    /\ readers = << >>
    /\ objects = << >>

\* ------------------------------------------------------------- the builders

\* sorted(base_path.glob("*.json")): the file names in ascending order.
\* A variant of the enumeration in the order the directory gives the names,
\* which is not the same on every run.
RECURSIVE unsorted(_)
unsorted(names) ==
    IF names = {} THEN << >>
    ELSE LET pick == IF loads % 2 = 0
                     THEN CHOOSE n \in names : \A m \in names : n <= m
                     ELSE CHOOSE n \in names : \A m \in names : n >= m
         IN  <<pick>> \o unsorted(names \ {pick})

\* sorted(base_path.glob("*.json")): the file names in ascending order.
RECURSIVE sorted(_)
sorted(names) ==
    IF names = {} THEN << >>
    ELSE LET least == CHOOSE n \in names : \A m \in names : n <= m
         IN  <<least>> \o sorted(names \ {least})

\* The heap with one more object.
Alloc(h, oid, obj) == [o \in DOMAIN h \cup {oid} |-> IF o = oid THEN obj ELSE h[o]]

\* json.loads, KernelConfig.from_dict and to_kernel of one document.
ResolveWith(payload, registry) ==
    LET data == json_loads(payload)
        config == KernelConfig_from_dict(data.val)
    IN  IF ~data.ok THEN data
        ELSE IF ~config.ok THEN config
        ELSE KernelConfig_to_kernel(config.val, registry)

Resolve(payload) == ResolveWith(payload, catalog)

\* A variant of the registration that starts from an empty dict every time.
Register_resetting(d, kernel, oid) ==
    DictSetAll(DictSet(<< >>, kernel.canonical_name, oid), kernel.aliases, oid)

\* A variant of the registration that keeps the record a key already has.
Register_keeping(d, kernel, oid) ==
    DictSetAll(d, SelectSeq(<<kernel.canonical_name>> \o kernel.aliases,
                            LAMBDA k : k \notin KeysOf(d)), oid)

\* kernels[kernel.canonical_name] = kernel; for alias in kernel.aliases: ...
Register(d, kernel, oid) ==
    DictSetAll(DictSet(d, kernel.canonical_name, oid), kernel.aliases, oid)

\* definition_path.read_text() / the payload of a sheet
Read(name, payload) ==
    /\ name \in DOMAIN files => payload = files[name]
    /\ files' = [n \in DOMAIN files \cup {name} |-> IF n = name THEN payload ELSE files[n]]

\* A variant of load_kernels without the test that the directory exists: the
\* glob of a missing directory is empty.
load_kernels_unchecked ==
    /\ pc = "idle"
    /\ loads < MaxLoads
    /\ source.kind = "fs"
    /\ loads' = loads + 1
    /\ pc' = "loop"
    /\ defs' = sorted(source.names)
    /\ idx' = 1
    /\ kernels' = << >>
    /\ last' = NoCall
    /\ UNCHANGED <<source, files, heap, outcome, inline_vars, env_vars>>

\* The body of load_kernels up to the loop, in a run of at most limit builds.
LoadKernels(limit) ==
    /\ pc = "idle"
    /\ loads < limit
    /\ source.kind = "fs"
    /\ loads' = loads + 1
    /\ IF ~source.exists
       THEN /\ outcome' = Append(outcome, Raise(<<"FileNotFoundError", "Kernel directory not found">>))
            /\ UNCHANGED <<pc, defs, idx, kernels>>
       ELSE /\ pc' = "loop"
            /\ defs' = sorted(source.names)
            /\ idx' = 1
            /\ kernels' = << >>
            /\ UNCHANGED outcome
    /\ last' = NoCall
    /\ UNCHANGED <<source, files, heap, inline_vars, env_vars>>

load_kernels == LoadKernels(MaxLoads)

BuildKernelRegistry(limit) ==
    /\ pc = "idle"
    /\ loads < limit
    /\ source.kind = "inline"
    /\ loads' = loads + 1
    /\ pc' = "loop"
    /\ defs' = [j \in 1..Cardinality(source.names) |-> j]
    /\ idx' = 1
    /\ kernels' = << >>
    /\ last' = NoCall
    /\ UNCHANGED <<source, files, heap, outcome, inline_vars, env_vars>>

build_kernel_registry == BuildKernelRegistry(MaxLoads)

\* A variant of the loop body that goes on to the next document on an error.
build_step_skipping ==
    /\ pc = "loop"
    /\ idx <= Len(defs)
    /\ \E payload \in Payloads :
          /\ Read(defs[idx], payload)
          /\ LET kernel == Resolve(payload)
                 oid == <<loads, idx>>
             IN  IF ~kernel.ok
                 THEN UNCHANGED <<heap, kernels>>
                 ELSE /\ heap' = Alloc(heap, oid, kernel.val)
                      /\ kernels' = Register(kernels, kernel.val, oid)
    /\ idx' = idx + 1
    /\ UNCHANGED <<pc, defs, outcome, source, loads, last, inline_vars, env_vars>>

\* One turn of the for loop; an exception ends the build and its locals.
build_step ==
    /\ pc = "loop"
    /\ idx <= Len(defs)
    /\ \E payload \in Payloads :
          /\ Read(defs[idx], payload)
          /\ LET kernel == Resolve(payload)
                 oid == <<loads, idx>>
             IN  IF ~kernel.ok
                 THEN /\ outcome' = Append(outcome, kernel)
                      /\ pc' = "idle"
                      /\ defs' = << >>
                      /\ idx' = 0
                      /\ kernels' = << >>
                      /\ UNCHANGED heap
                 ELSE /\ heap' = Alloc(heap, oid, kernel.val)
                      /\ kernels' = Register(kernels, kernel.val, oid)
                      /\ idx' = idx + 1
                      /\ UNCHANGED <<pc, defs, outcome>>
    /\ UNCHANGED <<source, loads, last, inline_vars, env_vars>>

\* A variant of the return that updates the registry of the earlier builds
\* in place and hands it out again.
build_return_in_place ==
    /\ pc = "loop"
    /\ idx > Len(defs)
    /\ outcome' = [l \in 1..(Len(outcome) + 1) |->
                      IF l <= Len(outcome) /\ ~outcome[l].ok THEN outcome[l]
                      ELSE Ok([kernels |-> kernels, operators |-> catalog])]
    /\ pc' = "idle"
    /\ defs' = << >>
    /\ idx' = 0
    /\ kernels' = << >>
    /\ UNCHANGED <<source, files, heap, loads, last, inline_vars, env_vars>>

\* A variant of the return that takes the entries the build used out of the
\* catalog.
build_return_consuming ==
    /\ pc = "loop"
    /\ idx > Len(defs)
    /\ outcome' = Append(outcome, Ok([kernels |-> kernels, operators |-> catalog]))
    /\ pc' = "idle"
    /\ defs' = << >>
    /\ idx' = 0
    /\ kernels' = << >>
    /\ catalog' = [s \in {t \in DOMAIN catalog :
                             \A p \in 1..Len(kernels) :
                                 \A j \in 1..Len(heap[kernels[p][2]].operators) :
                                     heap[kernels[p][2]].operators[j].symbol /= t}
                      |-> catalog[s]]
    /\ UNCHANGED <<source, files, heap, loads, last, inline_vars, changes, readers, objects>>

\* return KernelRegistry(kernels=kernels, operators=OPERATORS)
build_return ==
    /\ pc = "loop"
    /\ idx > Len(defs)
    /\ outcome' = Append(outcome, Ok([kernels |-> kernels, operators |-> catalog]))
    /\ pc' = "idle"
    /\ defs' = << >>
    /\ idx' = 0
    /\ kernels' = << >>
    /\ UNCHANGED <<source, files, heap, loads, last, inline_vars, env_vars>>

\* The names and formats the read calls are tried with.
Names == Keys \cup {"nope"}

Formats == {"json", "markdown", "rich", "qhc", "yaml"}

\* The registries that callers hold.
Returned == {r \in 1..Len(outcome) : outcome[r].ok}

\* registry.get(name)
get(r, name) ==
    /\ pc = "idle"
    /\ last' = Call("get", r, name, "", KernelRegistry_get(outcome[r].val, name))
    /\ UNCHANGED <<build_vars, inline_vars, env_vars>>

\* registry.all()
all(r) ==
    /\ pc = "idle"
    /\ last' = Call("all", r, "", "", Ok(KernelRegistry_all(outcome[r].val)))
    /\ UNCHANGED <<build_vars, inline_vars, env_vars>>

\* registry.get(name).activate(format)
activate(r, name, format) ==
    /\ pc = "idle"
    /\ name \in KeysOf(outcome[r].val.kernels)
    /\ LET oid == DictLookup(outcome[r].val.kernels, name)
           call == activate_of(source.kind, heap[oid], format)
       IN  /\ last' = Call("activate", r, name, format, call.out)
           /\ heap' = [heap EXCEPT ![oid] = call.self]
    /\ UNCHANGED <<source, files, pc, defs, idx, kernels, outcome, loads, inline_vars, env_vars>>

\* The symbols get_operator is tried with; the catalog has no "Q".
Symbols == {"X", "Q"}

\* get_operator(symbol): OPERATORS[symbol]
get_operator(symbol) ==
    /\ pc = "idle"
    /\ last' = Call("get_operator", 0, symbol, "",
                    IF symbol \in DOMAIN catalog THEN Ok(catalog[symbol])
                    ELSE Raise(<<"KeyError", symbol>>))
    /\ UNCHANGED <<build_vars, inline_vars, env_vars>>

Next ==
    \/ load_kernels
    \/ build_kernel_registry
    \/ build_step
    \/ build_return
    \/ \E r \in Returned : \E name \in Names : get(r, name)
    \/ \E r \in Returned : all(r)
    \/ \E r \in Returned : \E name \in Names : \E format \in Formats : activate(r, name, format)
    \/ \E symbol \in Symbols : get_operator(symbol)

Spec == Init /\ [][Next]_vars

\* ------------------------------------------- the inline dataset (KERNELS)

\* An AGIKernel of agi_potion_kernels: no metadata, style or theme, and
\* OperatorSpec operators without a nuance.
InlineKernel(canonical_name, aliases) ==
    [canonical_name |-> canonical_name,
     aliases |-> aliases,
     human_equivalent |-> "human equivalent",
     designation |-> "designation",
     status |-> "status",
     directive |-> "directive",
     operators |-> <<[symbol |-> "X", name |-> "Planck Anchor",
                      effect |-> <<"Lock", " ", "awareness.">>]>>,
     execution_steps |-> <<"one", "two">>,
     felt_state |-> "felt state",
     integration_note |-> "integration note"]

\* The kernels register_kernel is called with: each key as the canonical
\* name, with no alias, one other key, or the two other keys as aliases.
InlineKernels ==
    {InlineKernel(c, << >>) : c \in Keys}
        \cup {InlineKernel(ca[1], <<ca[2]>>) : ca \in {x \in Keys \X Keys : x[1] /= x[2]}}
        \cup {InlineKernel(ca[1], <<ca[2], ca[3]>>) :
                 ca \in {<<"k1", "k2", "k3">>, <<"k2", "k1", "k3">>, <<"k3", "k1", "k2">>}}

InitInline ==
    /\ source = [kind |-> "fs", exists |-> FALSE, names |-> {}]
    /\ files = << >>
    /\ pc = "idle"
    /\ defs = << >>
    /\ idx = 0
    /\ kernels = << >>
    /\ heap = << >>
    /\ outcome = << >>
    /\ loads = 0
    /\ last = NoCall
    /\ KERNELS = << >>
    /\ registered = << >>
    /\ catalog = OPERATORS
    /\ changes = {}
    /\ readers = << >>
    /\ objects = << >>

\* register_kernel(kernel); the new object is the next of registered.
register_kernel(kernel) ==
    /\ Len(registered) < MaxRegs
    /\ registered' = Append(registered, kernel)
    /\ KERNELS' = Register(KERNELS, kernel, Len(registered) + 1)
    /\ last' = NoCall
    /\ UNCHANGED <<build_vars, env_vars>>

\* The loop of list_canonical_kernels over KERNELS.values().
RECURSIVE ListCanonical(_, _, _)
ListCanonical(values, seen, acc) ==
    IF values = << >> THEN acc
    ELSE LET kernel == registered[Head(values)]
         IN  IF kernel.canonical_name \notin seen
             THEN ListCanonical(Tail(values), seen \cup {kernel.canonical_name},
                                Append(acc, Head(values)))
             ELSE ListCanonical(Tail(values), seen, acc)

list_canonical_kernels ==
    /\ last' = Call("list", 0, "", "", Ok(ListCanonical(DictValues(KERNELS), {}, << >>)))
    /\ UNCHANGED <<build_vars, inline_vars, env_vars>>

\* asdict(self) with the universal message added
InlineKernel_activate(self) ==
    [canonical_name |-> self.canonical_name,
     aliases |-> self.aliases,
     human_equivalent |-> self.human_equivalent,
     designation |-> self.designation,
     status |-> self.status,
     directive |-> self.directive,
     operators |-> [j \in 1..Len(self.operators) |->
                       [symbol |-> self.operators[j].symbol,
                        name |-> self.operators[j].name,
                        effect |-> self.operators[j].effect]],
     execution_steps |-> self.execution_steps,
     felt_state |-> self.felt_state,
     integration_note |-> self.integration_note,
     universal_message |-> UNIVERSAL_ACTIVATION_MESSAGE]

\* KERNELS[name].activate()
kernel_activate(name) ==
    /\ name \in KeysOf(KERNELS)
    /\ last' = Call("activate", 0, name, "json",
                    Ok(InlineKernel_activate(registered[DictLookup(KERNELS, name)])))
    /\ UNCHANGED <<build_vars, inline_vars, env_vars>>

NextInline ==
    \/ \E kernel \in InlineKernels : register_kernel(kernel)
    \/ list_canonical_kernels
    \/ \E name \in Keys : kernel_activate(name)

SpecInline == InitInline /\ [][NextInline]_vars

\* ------------------------------------------- reloads of a changing source

\* The most builds in a run that builds again.
MaxReloads == 2

\* The encodings read_text() decodes a file with: it is given none, so it is
\* the preferred encoding of the locale the process runs in.
Encodings == {"utf-8", "ascii", "latin-1"}

\* A directory of UTF-8 files read in a locale, or RAW_KERNEL_SHEETS.
ReloadSources ==
    {[kind |-> "fs", exists |-> TRUE, names |-> names, encoding |-> e] :
        names \in SUBSET FileNames, e \in Encodings}
    \cup {[kind |-> "inline", exists |-> TRUE, names |-> 1..n, encoding |-> "str"] :
             n \in 0..MaxDefs}

\* The documents of a reloaded source; here a payload names the definition
\* the document was written from, and a file holds its UTF-8 bytes.
ReloadPayloads == {<<"good", "A">>, <<"good", "B">>, <<"garbage", "">>}

\* The document has a character outside ASCII: the operator symbols are
\* glyphs, every other string of the sheets is ASCII.
NonAscii(payload) ==
    /\ json_loads(payload).ok
    /\ "operators" \in DOMAIN json_loads(payload).val
    /\ \E j \in 1..Len(json_loads(payload).val["operators"]) :
          "symbol" \in DOMAIN json_loads(payload).val["operators"][j]

\* The UTF-8 bytes of a glyph read as latin-1.
Garbled == [X |-> "~X", Y |-> "~Y", Q |-> "~Q", Z |-> "~Z"]

\* A JSON object read from the UTF-8 bytes of data decoded as latin-1.
GarbledData(data) ==
    IF "operators" \notin DOMAIN data THEN data
    ELSE [data EXCEPT !["operators"] =
             [j \in 1..Len(@) |->
                 IF "symbol" \in DOMAIN @[j]
                 THEN [@[j] EXCEPT !["symbol"] = Garbled[@]]
                 ELSE @[j]]]

\* json.loads(definition_path.read_text()): an ASCII file reads the same in
\* every encoding; ascii refuses any other byte, latin-1 misreads it.
read_text_json_loads(payload, encoding) ==
    IF encoding = "utf-8" \/ ~NonAscii(payload) THEN json_loads(payload)
    ELSE IF encoding = "ascii" THEN Raise(<<"UnicodeDecodeError">>)
    ELSE Ok(GarbledData(json_loads(payload).val))

\* The loop body of load_kernels on a file of the directory.
ResolveFile(payload, encoding, registry) ==
    LET data == read_text_json_loads(payload, encoding)
        config == KernelConfig_from_dict(data.val)
    IN  IF ~data.ok THEN data
        ELSE IF ~config.ok THEN config
        ELSE KernelConfig_to_kernel(config.val, registry)

InitReload ==
    /\ source \in ReloadSources
    /\ files = << >>
    /\ pc = "idle"
    /\ defs = << >>
    /\ idx = 0
    /\ kernels = << >>
    /\ heap = << >>
    /\ outcome = << >>
    /\ loads = 0
    /\ last = NoCall
    /\ KERNELS = << >>
    /\ registered = << >>
    /\ catalog = OPERATORS
    /\ changes = {}
    /\ readers = << >>
    /\ objects = << >>

reload_kernels == LoadKernels(MaxReloads)

rebuild_kernel_registry == BuildKernelRegistry(MaxReloads)

\* One turn of the for loop of either builder, the file decoded as the
\* locale has it, the sheet taken as the str it is.
reload_step ==
    /\ pc = "loop"
    /\ idx <= Len(defs)
    /\ \E payload \in ReloadPayloads :
          /\ Read(defs[idx], payload)
          /\ LET kernel == IF source.kind = "fs"
                           THEN ResolveFile(payload, source.encoding, catalog)
                           ELSE ResolveWith(payload, catalog)
                 oid == <<loads, idx>>
             IN  IF ~kernel.ok
                 THEN /\ outcome' = Append(outcome, kernel)
                      /\ pc' = "idle"
                      /\ defs' = << >>
                      /\ idx' = 0
                      /\ kernels' = << >>
                      /\ UNCHANGED heap
                 ELSE /\ heap' = Alloc(heap, oid, kernel.val)
                      /\ kernels' = Register(kernels, kernel.val, oid)
                      /\ idx' = idx + 1
                      /\ UNCHANGED <<pc, defs, outcome>>
    /\ UNCHANGED <<source, loads, last, inline_vars, env_vars>>

\* Between two builds the documents of the source are rewritten, added or
\* removed; what they hold shows when the next build reads them.
change_source ==
    /\ pc = "idle"
    /\ loads >= 1
    /\ loads < MaxReloads
    /\ loads \notin changes
    /\ source' \in {s \in ReloadSources : s.kind = source.kind /\ s.encoding = source.encoding}
    /\ files' = << >>
    /\ changes' = changes \cup {loads}
    /\ UNCHANGED <<pc, defs, idx, kernels, heap, outcome, loads, last, inline_vars,
                   catalog, readers, objects>>

NextReload ==
    \/ reload_kernels
    \/ rebuild_kernel_registry
    \/ reload_step
    \/ build_return
    \/ change_source

SpecReload == InitReload /\ [][NextReload]_vars

\* ------------------------------------------------- concurrent readers

\* The most reader threads.
MaxReaders == 2

Readers == 1..MaxReaders

\* The whole loop of a builder over the documents docs, from document j on,
\* every one of which resolves: the dict and the records it ends with.
RECURSIVE BuildAll(_, _, _, _)
BuildAll(docs, j, d, h) ==
    IF j > Len(docs) THEN [kernels |-> d, heap |-> h]
    ELSE LET kernel == ResolveWith(docs[j], OPERATORS).val
         IN  BuildAll(docs, j + 1, Register(d, kernel, <<1, j>>), Alloc(h, <<1, j>>, kernel))

\* The definitions of the registries that the readers share.
ReaderDocs ==
    LET good == {<<"good", g>> : g \in DOMAIN GoodSheets}
    IN  {<<p>> : p \in good} \cup {<<p, q>> : p \in good, q \in good}

ReaderIdle ==
    [stage |-> "idle", op |-> "none", name |-> "", format |-> "", oid |-> <<0, 0>>,
     out |-> << >>]

\* A completed registry, returned by one build, and readers that have not
\* called yet.
InitReaders ==
    \E docs \in ReaderDocs :
        /\ source = [kind |-> "fs", exists |-> TRUE, names |-> 1..Len(docs)]
        /\ files = docs
        /\ pc = "idle"
        /\ defs = << >>
        /\ idx = 0
        /\ kernels = << >>
        /\ heap = BuildAll(docs, 1, << >>, << >>).heap
        /\ outcome = <<Ok([kernels |-> BuildAll(docs, 1, << >>, << >>).kernels,
                           operators |-> OPERATORS])>>
        /\ loads = 1
        /\ last = NoCall
        /\ KERNELS = << >>
        /\ registered = << >>
        /\ catalog = OPERATORS
        /\ changes = {}
        /\ readers = [t \in Readers |-> ReaderIdle]
        /\ objects = << >>

Reading(t, op, name, format, stage, oid, out) ==
    readers' = [readers EXCEPT ![t] = [stage |-> stage, op |-> op, name |-> name,
                                       format |-> format, oid |-> oid, out |-> out]]

\* Reader t runs registry.get(name).
reader_get(t, name) ==
    /\ readers[t].stage \in {"idle", "done"}
    /\ Reading(t, "get", name, "", "done", <<0, 0>>, KernelRegistry_get(outcome[1].val, name))
    /\ UNCHANGED <<build_vars, last, inline_vars, catalog, changes, objects>>

\* Reader t runs registry.all().
reader_all(t) ==
    /\ readers[t].stage \in {"idle", "done"}
    /\ Reading(t, "all", "", "", "done", <<0, 0>>, Ok(KernelRegistry_all(outcome[1].val)))
    /\ UNCHANGED <<build_vars, last, inline_vars, catalog, changes, objects>>

\* Reader t begins registry.get(name).activate(format): the lookup.
reader_lookup(t, name, format) ==
    /\ readers[t].stage \in {"idle", "done"}
    /\ LET found == KernelRegistry_get(outcome[1].val, name)
       IN  IF found.ok
           THEN Reading(t, "activate", name, format, "found", found.val, << >>)
           ELSE Reading(t, "activate", name, format, "done", <<0, 0>>, found)
    /\ UNCHANGED <<build_vars, last, inline_vars, catalog, changes, objects>>

\* Reader t goes on to activate(format) on the record it found.
reader_activate(t) ==
    /\ readers[t].stage = "found"
    /\ LET call == AGIKernel_activate(heap[readers[t].oid], readers[t].format)
       IN  /\ Reading(t, "activate", readers[t].name, readers[t].format, "done",
                      readers[t].oid, call.out)
           /\ heap' = [heap EXCEPT ![readers[t].oid] = call.self]
    /\ UNCHANGED <<source, files, pc, defs, idx, kernels, outcome, loads, last, inline_vars,
                   catalog, changes, objects>>

\* The names and formats the readers call with.
ReaderNames == {"k1", "k3", "nope"}

ReaderFormats == {"json", "markdown", "yaml"}

NextReaders ==
    \/ \E t \in Readers : \E name \in ReaderNames : reader_get(t, name)
    \/ \E t \in Readers : reader_all(t)
    \/ \E t \in Readers : \E name \in ReaderNames : \E format \in ReaderFormats :
          reader_lookup(t, name, format)
    \/ \E t \in Readers : reader_activate(t)

SpecReaders == InitReaders /\ [][NextReaders]_vars

\* ------------------------------------------------- the renderings compared

\* The most operator references and the most steps of a rendered record.
MaxOps == 2

MaxSteps == 2

\* The sequences over S of length at most n.
SeqsUpTo(S, n) == UNION {[1..k -> S] : k \in 0..n}

\* Operator references: X with no nuance key, a null, empty, blank and
\* distinct nuance and its own effect as nuance; Y with no nuance key.
RenderRefs ==
    {[symbol |-> "X"], [symbol |-> "Y"]}
    \cup {[symbol |-> "X", nuance |-> n] :
             n \in {None, << >>, <<" ">>, <<"Halts", " ", "gently.">>,
                    <<"Halts", " ", "the", " ", "cascade.">>}}

\* The definitions whose records are rendered.
RenderSheets ==
    {Sheet("k1", aliases, operators, execution_steps, aliases) :
        aliases \in {<< >>, <<"k2">>},
        operators \in SeqsUpTo(RenderRefs, MaxOps),
        execution_steps \in SeqsUpTo({"breathe", "return"}, MaxSteps)}

\* A registry of one record, built by load_kernels or by
\* _build_kernel_registry from one definition, and no call made yet.
InitRender ==
    \E sheet \in RenderSheets : \E kind \in {"fs", "inline"} :
        LET kernel == KernelConfig_to_kernel(KernelConfig_from_dict(sheet).val, OPERATORS).val
        IN  /\ source = [kind |-> kind, exists |-> TRUE, names |-> {1}]
            /\ files = << >>
            /\ pc = "idle"
            /\ defs = << >>
            /\ idx = 0
            /\ kernels = << >>
            /\ heap = Alloc(<< >>, <<1, 1>>, kernel)
            /\ outcome = <<Ok([kernels |-> Register(<< >>, kernel, <<1, 1>>),
                               operators |-> OPERATORS])>>
            /\ loads = 1
            /\ last = NoCall
            /\ KERNELS = << >>
            /\ registered = << >>
            /\ catalog = OPERATORS
            /\ changes = {}
            /\ readers = << >>
            /\ objects = << >>

\* What each implementation renders a record as.
Rendering(kind, op, kernel) ==
    IF kind = "inline"
    THEN CASE op = "to_markdown" -> Codex_AGIKernel_to_markdown(kernel)
           [] op = "to_qhc" -> Codex_AGIKernel_to_qhc(kernel)
           [] op = "card" -> render_kernel_card(kernel)
    ELSE CASE op = "to_markdown" -> AGIKernel_to_markdown(kernel)
           [] op = "to_qhc" -> AGIKernel_to_qhc(kernel)
           [] op = "card" -> render_kernel(kernel)

Render(op) ==
    /\ last' = Call(op, 1, "k1", "", Ok(Rendering(source.kind, op, heap[<<1, 1>>])))
    /\ UNCHANGED <<build_vars, inline_vars, env_vars>>

\* kernel.to_markdown()
render_markdown == Render("to_markdown")

\* kernel.to_qhc()
render_qhc == Render("to_qhc")

\* render_kernel(kernel) of the package, render_kernel_card(kernel) of the codex
render_card == Render("card")

NextRender ==
    \/ render_markdown
    \/ render_qhc
    \/ render_card

SpecRender == InitRender /\ [][NextRender]_vars

\* ------------------------------------------------- one definition validated

\* sheet without one key: a top-level key, "metadata.<key>", "style.<key>",
\* the symbol of its last operator reference, or none.
Dropped(sheet, where) ==
    IF where[1] = "top" THEN Without(sheet, where[2])
    ELSE IF where[1] = "metadata"
    THEN [sheet EXCEPT !["metadata"] = Without(sheet["metadata"], where[2])]
    ELSE IF where[1] = "style"
    THEN [sheet EXCEPT !["style"] = Without(sheet["style"], where[2])]
    ELSE IF where[1] = "operator" /\ sheet["operators"] /= << >>
    THEN [sheet EXCEPT !["operators"] =
             [j \in 1..Len(sheet["operators"]) |->
                 IF j = Len(sheet["operators"]) THEN [nuance |-> << >>]
                 ELSE sheet["operators"][j]]]
    ELSE sheet

\* Definitions that name the symbols X, which the catalog has, and Q and Z,
\* which it lacks, and that lack at most one key.
ValidatedSheets ==
    {Dropped(Sheet("k1", << >>, operators, << >>, << >>), where) :
        operators \in SeqsUpTo({[symbol |-> "X"], [symbol |-> "Q"], [symbol |-> "Z"]}, MaxOps),
        where \in Drops \cup {<<"none", "">>}}

\* A directory of one document, which no build has read.
InitValidate ==
    \E sheet \in ValidatedSheets :
        /\ source = [kind |-> "fs", exists |-> TRUE, names |-> {1}]
        /\ files = <<sheet>>
        /\ pc = "idle"
        /\ defs = << >>
        /\ idx = 0
        /\ kernels = << >>
        /\ heap = << >>
        /\ outcome = << >>
        /\ loads = 0
        /\ last = NoCall
        /\ KERNELS = << >>
        /\ registered = << >>
        /\ catalog = OPERATORS
        /\ changes = {}
        /\ readers = << >>
        /\ objects = << >>

\* config = KernelConfig.from_dict(data); kernel = config.to_kernel(OPERATORS)
validate ==
    /\ last.op = "none"
    /\ LET config == KernelConfig_from_dict(files[1])
       IN  last' = Call("validate", 0, "", "",
                        IF ~config.ok THEN config
                        ELSE KernelConfig_to_kernel(config.val, catalog))
    /\ UNCHANGED <<build_vars, inline_vars, env_vars>>

NextValidate == validate

SpecValidate == InitValidate /\ [][NextValidate]_vars

\* ------------------------------------------------- a catalog that is edited

\* A variant of the instance whose name and effect are those the catalog
\* has for its symbol at the time they are read.
OperatorInstance_linked(self, registry) ==
    IF self.symbol \in DOMAIN registry
    THEN [self EXCEPT !.name = registry[self.symbol].name,
                      !.effect = registry[self.symbol].effect]
    ELSE [self EXCEPT !.name = "", !.effect = << >>]

\* An OperatorInstance when the catalog has become registry: its symbol, name
\* and effect are fields of its own, set from the strings of the definition
\* when it was resolved.
OperatorInstance(self, registry) == self

\* The records when the catalog has become registry.
RecordsAfter(h, registry) ==
    [oid \in DOMAIN h |->
        [h[oid] EXCEPT !.operators =
            [j \in 1..Len(h[oid].operators) |-> OperatorInstance(h[oid].operators[j], registry)]]]

\* The registries returned hold the OPERATORS dict itself.
RegistriesAfter(registry) ==
    [r \in DOMAIN outcome |->
        IF outcome[r].ok THEN Ok([outcome[r].val EXCEPT !.operators = registry])
        ELSE outcome[r]]

\* A caller changes the OPERATORS dict between two builds.
EditCatalog(registry) ==
    /\ pc = "idle"
    /\ loads >= 1
    /\ loads \notin changes
    /\ registry /= catalog
    /\ catalog' = registry
    /\ changes' = changes \cup {loads}
    /\ heap' = RecordsAfter(heap, registry)
    /\ outcome' = RegistriesAfter(registry)
    /\ UNCHANGED <<source, files, pc, defs, idx, kernels, loads, last, inline_vars, readers, objects>>

\* OPERATORS[symbol] = OperatorSpec(symbol, "Renamed", "Changed.")
replace_operator ==
    \E symbol \in {"X", "Y"} :
        EditCatalog([s \in DOMAIN catalog \cup {symbol} |->
                        IF s = symbol
                        THEN [symbol |-> symbol, name |-> "Renamed", effect |-> <<"Changed.">>]
                        ELSE catalog[s]])

\* del OPERATORS[symbol]
remove_operator ==
    \E symbol \in DOMAIN catalog :
        EditCatalog([s \in DOMAIN catalog \ {symbol} |-> catalog[s]])

\* kernel.activate("json") on the record that k1 returns
read_bundle ==
    \E r \in Returned : activate(r, "k1", "json")

NextCatalog ==
    \/ reload_kernels
    \/ rebuild_kernel_registry
    \/ reload_step
    \/ build_return
    \/ replace_operator
    \/ remove_operator
    \/ read_bundle

SpecCatalog == InitReload /\ [][NextCatalog]_vars

\* ------------------------------------------------- objects that are shared

\* The most bundles a caller holds.
MaxBundles == 2

\* An object is its fields, with the place in the store of each list and
\* object it refers to; two objects that hold the same place share what is
\* there.  What an object shows is its fields with what the places hold.
View(store, o) ==
    IF "metadata" \in DOMAIN o
    THEN [o.fields EXCEPT
             !.aliases = store[o.aliases],
             !.operators = store[o.operators],
             !.execution_steps = store[o.execution_steps],
             !.metadata = [store[o.metadata] EXCEPT !.tags = store[store[o.metadata].tags]],
             !.style = store[o.style]]
    ELSE [o.fields EXCEPT !.aliases = store[o.aliases],
                          !.operators = store[o.operators],
                          !.execution_steps = store[o.execution_steps]]

\* The fields of an object that are lists or objects: a record of
\* agi_potion_kernels and its bundle have no metadata and no style.
FieldsOf(o) ==
    IF "metadata" \in DOMAIN o
    THEN {"aliases", "operators", "execution_steps", "tags", "style"}
    ELSE {"aliases", "operators", "execution_steps"}

\* KernelConfig.from_dict(data): the config, with the lists and the
\* KernelMetadata and KernelStyle objects it makes.
KernelConfig_from_dict_objects(data) ==
    LET v == KernelConfig_from_dict(data).val
    IN  [store |-> <<v.aliases, v.operators, v.execution_steps, v.metadata.tags,
                     [v.metadata EXCEPT !.tags = 4], v.style>>,
         config |-> [fields |-> v, aliases |-> 1, operators |-> 2, execution_steps |-> 3,
                     metadata |-> 5, style |-> 6],
         kernel |-> << >>,
         bundles |-> << >>,
         changed |-> {}]

\* config.to_kernel(OPERATORS): aliases=self.aliases, metadata=self.metadata
\* and style=self.style are the config's own; operators and execution_steps
\* are new lists.
KernelConfig_to_kernel_objects(objs) ==
    LET c == objs.config
        n == Len(objs.store)
        k == KernelConfig_to_kernel(View(objs.store, c), OPERATORS).val
    IN  [objs EXCEPT !.store = objs.store \o <<k.operators, k.execution_steps>>,
                     !.kernel = <<[fields |-> k, aliases |-> c.aliases, operators |-> n + 1,
                                   execution_steps |-> n + 2, metadata |-> c.metadata,
                                   style |-> c.style]>>]

\* A variant of the bundle that returns the record's own aliases list and
\* tags list.
AGIKernel_to_activation_bundle_sharing(objs) ==
    LET k == objs.kernel[1]
        n == Len(objs.store)
        b == AGIKernel_to_activation_bundle(View(objs.store, k))
    IN  [objs EXCEPT
            !.store = objs.store \o <<b.aliases, b.operators, b.execution_steps, b.metadata.tags,
                                      [b.metadata EXCEPT !.tags = objs.store[k.metadata].tags],
                                      b.style>>,
            !.bundles = Append(@, [fields |-> b, aliases |-> k.aliases, operators |-> n + 2,
                                   execution_steps |-> n + 3, metadata |-> n + 5,
                                   style |-> n + 6])]

\* kernel._to_activation_bundle(): list(self.aliases), a list of new dicts,
\* list(self.execution_steps), a new metadata dict with list(tags), a new
\* style dict.
AGIKernel_to_activation_bundle_objects(objs) ==
    LET k == objs.kernel[1]
        n == Len(objs.store)
        b == AGIKernel_to_activation_bundle(View(objs.store, k))
    IN  [objs EXCEPT
            !.store = objs.store \o <<b.aliases, b.operators, b.execution_steps, b.metadata.tags,
                                      [b.metadata EXCEPT !.tags = n + 4], b.style>>,
            !.bundles = Append(@, [fields |-> b, aliases |-> n + 1, operators |-> n + 2,
                                   execution_steps |-> n + 3, metadata |-> n + 5,
                                   style |-> n + 6])]

\* AGIKernel(...) of agi_potion_kernels, made with lists of its own.
InlineKernel_objects(kernel) ==
    [store |-> <<kernel.aliases, kernel.operators, kernel.execution_steps>>,
     kernel |-> <<[fields |-> kernel, aliases |-> 1, operators |-> 2, execution_steps |-> 3]>>,
     bundles |-> << >>,
     changed |-> {}]

\* A variant of asdict that returns the record's own lists.
InlineKernel_activate_sharing(objs) ==
    LET k == objs.kernel[1]
        b == InlineKernel_activate(View(objs.store, k))
    IN  [objs EXCEPT
            !.bundles = Append(@, [fields |-> b, aliases |-> k.aliases,
                                   operators |-> k.operators,
                                   execution_steps |-> k.execution_steps])]

\* kernel.activate() of agi_potion_kernels: asdict(self) copies every list,
\* and every OperatorSpec into a dict.
InlineKernel_activate_objects(objs) ==
    LET k == objs.kernel[1]
        n == Len(objs.store)
        b == InlineKernel_activate(View(objs.store, k))
    IN  [objs EXCEPT
            !.store = objs.store \o <<b.aliases, b.operators, b.execution_steps>>,
            !.bundles = Append(@, [fields |-> b, aliases |-> n + 1, operators |-> n + 2,
                                   execution_steps |-> n + 3])]

\* The place of the list or object that a change to a field of o changes.
PlaceOf(store, o, field) ==
    IF field = "tags" THEN store[o.metadata].tags ELSE o[field]

\* list.append(...) on a list, an entry set on a style.
Change(store, place, field) ==
    [store EXCEPT ![place] =
        IF field = "style" THEN [@ EXCEPT !.palette = "changed"]
        ELSE IF field = "operators" THEN Append(@, [symbol |-> "changed"])
        ELSE Append(@, "changed")]

\* A KernelConfig made from a definition, and no record made from it yet;
\* or a record of agi_potion_kernels.
InitObjects ==
    \E made \in {KernelConfig_from_dict_objects(sheet) : sheet \in {SheetA, SheetC}}
                \cup {InlineKernel_objects(InlineKernel("k1", <<"k2">>))} :
        /\ source = [kind |-> "fs", exists |-> TRUE, names |-> {1}]
        /\ files = << >>
        /\ pc = "idle"
        /\ defs = << >>
        /\ idx = 0
        /\ kernels = << >>
        /\ heap = << >>
        /\ outcome = << >>
        /\ loads = 0
        /\ last = NoCall
        /\ KERNELS = << >>
        /\ registered = << >>
        /\ catalog = OPERATORS
        /\ changes = {}
        /\ readers = << >>
        /\ objects = made

\* kernel = config.to_kernel(OPERATORS)
to_kernel ==
    /\ "config" \in DOMAIN objects
    /\ objects.kernel = << >>
    /\ objects' = KernelConfig_to_kernel_objects(objects)
    /\ UNCHANGED <<build_vars, last, inline_vars, catalog, changes, readers>>

\* bundle = kernel.activate("json")
activate_json ==
    /\ "config" \in DOMAIN objects
    /\ objects.kernel /= << >>
    /\ Len(objects.bundles) < MaxBundles
    /\ objects' = AGIKernel_to_activation_bundle_objects(objects)
    /\ UNCHANGED <<build_vars, last, inline_vars, catalog, changes, readers>>

\* bundle = kernel.activate() on a record of agi_potion_kernels
inline_activate ==
    /\ "config" \notin DOMAIN objects
    /\ Len(objects.bundles) < MaxBundles
    /\ objects' = InlineKernel_activate_objects(objects)
    /\ UNCHANGED <<build_vars, last, inline_vars, catalog, changes, readers>>

\* After to_kernel has returned: config.aliases.append(...),
\* config.execution_steps.append(...), config.metadata.tags.append(...),
\* config.style.palette = ...; each once.
change_config(field) ==
    LET place == PlaceOf(objects.store, objects.config, field)
    IN  /\ "config" \in DOMAIN objects
        /\ objects.kernel /= << >>
        /\ place \notin objects.changed
        /\ objects' = [objects EXCEPT !.store = Change(objects.store, place, field),
                                      !.changed = @ \cup {place}]
        /\ UNCHANGED <<build_vars, last, inline_vars, catalog, changes, readers>>

\* The places of the lists and objects of bundle b.
PlacesOf(store, b) == {PlaceOf(store, b, field) : field \in FieldsOf(b)}

\* bundle["aliases"].append(...), and so on for its operators, its
\* execution_steps, its metadata["tags"] and its style; one change a bundle.
change_bundle(j, field) ==
    LET b == objects.bundles[j]
        place == PlaceOf(objects.store, b, field)
    IN  /\ field \in FieldsOf(b)
        /\ PlacesOf(objects.store, b) \cap objects.changed = {}
        /\ objects' = [objects EXCEPT !.store = Change(objects.store, place, field),
                                      !.changed = @ \cup {place}]
        /\ UNCHANGED <<build_vars, last, inline_vars, catalog, changes, readers>>

NextObjects ==
    \/ to_kernel
    \/ activate_json
    \/ inline_activate
    \/ \E field \in {"aliases", "execution_steps", "tags", "style"} : change_config(field)
    \/ \E j \in 1..Len(objects.bundles) :
          \E field \in {"aliases", "operators", "execution_steps", "tags", "style"} :
              change_bundle(j, field)

SpecObjects == InitObjects /\ [][NextObjects]_vars

\* --------------------------------------------------------------- claims

\* The documents of the source in the order a build enumerates them.
Enumeration == sorted(source.names)

WasRead(j) == Enumeration[j] \in DOMAIN files

Doc(j) == files[Enumeration[j]]

Raw(j) == json_loads(Doc(j)).val

\* Document j was read, is JSON and resolves to a kernel.
Resolves(j) == WasRead(j) /\ Resolve(Doc(j)).ok

\* The keys a kernel is to be found under.
KeysOfKernel(kernel) == {kernel.canonical_name} \cup {kernel.aliases[a] : a \in 1..Len(kernel.aliases)}

\* The required fields that a raw definition lacks.
MissingRequired(data) ==
    {k \in {"canonical_name", "human_equivalent", "designation", "status", "directive",
            "felt_state", "integration_note", "metadata", "style"} : k \notin DOMAIN data}
    \cup (IF "metadata" \in DOMAIN data
          THEN {k \in {"version", "created_by", "last_modified", "safety"} :
                   k \notin DOMAIN data["metadata"]}
          ELSE {})
    \cup (IF "style" \in DOMAIN data
          THEN {k \in {"palette", "tone", "layout"} : k \notin DOMAIN data["style"]}
          ELSE {})

\* The operator references of a raw definition that name a symbol.
SymbolRefs(data) ==
    IF "operators" \in DOMAIN data
    THEN SelectSeq(data["operators"], LAMBDA ref : "symbol" \in DOMAIN ref)
    ELSE << >>

\* The symbols a raw definition names that the catalog lacks, in order.
UnknownSymbols(data) ==
    LET refs == SelectSeq(SymbolRefs(data), LAMBDA ref : ref["symbol"] \notin DOMAIN OPERATORS)
    IN  [j \in 1..Len(refs) |-> refs[j]["symbol"]]

\* A raw definition with every field and reference in place.
Complete(data) ==
    /\ MissingRequired(data) = {}
    /\ "operators" \in DOMAIN data => Len(SymbolRefs(data)) = Len(data["operators"])

\* C1: in every registry a build returns, the canonical name and every alias
\* of every record the registry holds look up that very record.
C1_EveryKeyOfARecordReturnsIt ==
    \A r \in Returned :
        \A p \in 1..Len(outcome[r].val.kernels) :
            LET oid == outcome[r].val.kernels[p][2]
            IN  \A k \in KeysOfKernel(heap[oid]) :
                    KernelRegistry_get(outcome[r].val, k) = Ok(oid)

\* C2: a build in which a record's canonical name or alias is a key of an
\* earlier record does not return a registry: it fails with DuplicateKey.
C2_DuplicateKeyFailsTheBuild ==
    \A l \in 1..Len(outcome) :
        \A j \in 1..Len(Enumeration) :
            (/\ \A i \in 1..j : Resolves(i)
             /\ \E i \in 1..(j - 1) :
                   KeysOfKernel(Resolve(Doc(i)).val) \cap KeysOfKernel(Resolve(Doc(j)).val) /= {})
            => /\ ~outcome[l].ok
               /\ outcome[l].exc[1] = "DuplicateKey"

\* C3: when a definition names a symbol the catalog lacks, the build returns
\* no registry and no record is created for that definition; when it is the
\* first faulty definition the error names its first unknown symbol.
C3_UnknownOperatorFailsTheBuild ==
    \A l \in 1..Len(outcome) :
        \A j \in 1..Len(Enumeration) :
            (WasRead(j) /\ json_loads(Doc(j)).ok /\ UnknownSymbols(Raw(j)) /= << >>)
            => /\ ~outcome[l].ok
               /\ <<l, j>> \notin DOMAIN heap
               /\ (Complete(Raw(j)) /\ \A i \in 1..(j - 1) : Resolves(i))
                  => outcome[l].exc =
                         <<"KeyError", "Unknown operator symbol: ", UnknownSymbols(Raw(j))[1]>>

\* C3's case: a build that resolved a first definition and failed at the
\* second for an unknown symbol.
C3_Witness ==
    \E l \in 1..Len(outcome) :
        /\ ~outcome[l].ok
        /\ Len(outcome[l].exc) = 3
        /\ outcome[l].exc[3] = "Q"
        /\ <<l, 1>> \in DOMAIN heap

\* C4: when a definition lacks a required field, the build returns no
\* registry and no record is created for it; when it is the first faulty
\* definition the error is the KeyError naming the field.
C4_MissingFieldFailsTheBuild ==
    \A l \in 1..Len(outcome) :
        \A j \in 1..Len(Enumeration) :
            (WasRead(j) /\ json_loads(Doc(j)).ok /\ MissingRequired(Raw(j)) /= {})
            => /\ ~outcome[l].ok
               /\ <<l, j>> \notin DOMAIN heap
               /\ (\A i \in 1..(j - 1) : Resolves(i))
                  => \E f \in MissingRequired(Raw(j)) : outcome[l].exc = <<"KeyError", f>>

\* C4's case: a build that resolved a first definition and failed at the
\* second, which lacks directive.
C4_Witness ==
    \E l \in 1..Len(outcome) :
        /\ outcome[l] = Raise(<<"KeyError", "directive">>)
        /\ <<l, 1>> \in DOMAIN heap
        /\ WasRead(2)
        /\ "directive" \notin DOMAIN Raw(2)

\* C5: a definition without operators or without execution_steps is not
\* resolved: no record is created for it.
C5_OperatorsAndStepsAreRequired ==
    \A l \in 1..loads :
        \A j \in 1..Len(Enumeration) :
            (/\ WasRead(j)
             /\ json_loads(Doc(j)).ok
             /\ {"operators", "execution_steps"} \ DOMAIN Raw(j) /= {})
            => <<l, j>> \notin DOMAIN heap

\* C6: a build gives its caller a registry only when the source exists and
\* every definition of the enumeration was read, resolved and registered; if
\* it fails at any definition it gives an exception and nothing else, and a
\* build under way has given its caller nothing.
C6_AllOrNothing ==
    /\ Len(outcome) = IF pc = "loop" THEN loads - 1 ELSE loads
    /\ \A l \in 1..Len(outcome) :
          /\ outcome[l].ok =>
                /\ source.exists
                /\ \A j \in 1..Len(Enumeration) :
                      /\ Resolves(j)
                      /\ KeysOfKernel(Resolve(Doc(j)).val) \subseteq KeysOf(outcome[l].val.kernels)
          /\ (~source.exists \/ \E j \in 1..Len(Enumeration) : WasRead(j) /\ ~Resolve(Doc(j)).ok)
             => (~outcome[l].ok /\ DOMAIN outcome[l] = {"ok", "exc"})

\* C6's case: a build that registered a first definition and failed at the
\* second, which is not JSON.
C6_Witness ==
    \E l \in 1..Len(outcome) :
        /\ outcome[l] = Raise(<<"JSONDecodeError">>)
        /\ <<l, 1>> \in DOMAIN heap
        /\ pc = "idle"

\* C7: list_canonical_kernels() is as long as the number of distinct
\* canonical names among the kernels registered.
C7_ListLengthIsTheNumberOfCanonicalNames ==
    last.op = "list" =>
        Len(last.out.val) =
            Cardinality({registered[i].canonical_name : i \in 1..Len(registered)})

\* C8: all() returns each record of the registry once, in the order in
\* which the records were first registered.
C8_AllReturnsEachRecordOnce ==
    last.op = "all" =>
        LET out == last.out.val
        IN  /\ \A p, q \in 1..Len(out) : p < q => out[p] /= out[q]
            /\ \A p, q \in 1..Len(out) : p < q => out[p][2] < out[q][2]
            /\ {out[p] : p \in 1..Len(out)} =
                   {outcome[last.reg].val.kernels[p][2] :
                       p \in 1..Len(outcome[last.reg].val.kernels)}

\* C9: activate leaves every record and every registry as it was, and
\* called again with the same format on the same record, with nothing in
\* between, it returns what it returned before.
C9_RenderingIsIdempotentAndPure ==
    [][(pc = "idle" /\ loads' = loads /\ last'.op = "activate")
       => /\ heap' = heap
          /\ outcome' = outcome
          /\ last'.again => last'.out = last.out]_vars

\* C9's case: a second markdown rendering of a record with two operators.
C9_Witness ==
    /\ last.op = "activate"
    /\ last.again
    /\ last.format = "markdown"
    /\ Len(heap[DictLookup(outcome[last.reg].val.kernels, last.name)].operators) = 2

\* C10: every field of the bundle activate("json") returns is the field of
\* the record, the operators one {symbol, name, effect, nuance} each, in order.
C10_BundleIsLossless ==
    (last.op = "activate" /\ last.format = "json") =>
        LET bundle == last.out.val
            record == heap[DictLookup(outcome[last.reg].val.kernels, last.name)]
        IN  /\ last.out.ok
            /\ bundle.canonical_name = record.canonical_name
            /\ bundle.aliases = record.aliases
            /\ bundle.human_equivalent = record.human_equivalent
            /\ bundle.designation = record.designation
            /\ bundle.status = record.status
            /\ bundle.directive = record.directive
            /\ Len(bundle.operators) = Len(record.operators)
            /\ \A j \in 1..Len(record.operators) :
                  /\ DOMAIN bundle.operators[j] = {"symbol", "name", "effect", "nuance"}
                  /\ bundle.operators[j].symbol = record.operators[j].symbol
                  /\ bundle.operators[j].name = record.operators[j].name
                  /\ bundle.operators[j].effect = record.operators[j].effect
                  /\ bundle.operators[j].nuance = record.operators[j].nuance
            /\ bundle.execution_steps = record.execution_steps
            /\ bundle.felt_state = record.felt_state
            /\ bundle.integration_note = record.integration_note
            /\ bundle.metadata.version = record.metadata.version
            /\ bundle.metadata.created_by = record.metadata.created_by
            /\ bundle.metadata.last_modified = record.metadata.last_modified
            /\ bundle.metadata.safety = record.metadata.safety
            /\ bundle.metadata.tags = record.metadata.tags
            /\ bundle.style.palette = record.style.palette
            /\ bundle.style.tone = record.style.tone
            /\ bundle.style.layout = record.style.layout
            /\ bundle.style.motif = record.style.motif
            /\ bundle.theme = record.theme

\* C10's case: the bundle of a record with aliases, tags, a motif, a theme
\* and an operator whose nuance is not its effect.
C10_Witness ==
    /\ last.op = "activate"
    /\ last.format = "json"
    /\ last.out.ok
    /\ last.out.val.aliases /= << >>
    /\ last.out.val.metadata.tags /= << >>
    /\ Truthy(last.out.val.theme)
    /\ \E j \in 1..Len(last.out.val.operators) :
          /\ Truthy(last.out.val.operators[j].nuance)
          /\ last.out.val.operators[j].nuance /= last.out.val.operators[j].effect

\* The number of places at which the text sub occurs in the text t.
Occurrences(sub, t) ==
    Cardinality({i \in 1..(Len(t) - Len(sub) + 1) : SubSeq(t, i, i + Len(sub) - 1) = sub})

\* The nuance is present, not empty once trimmed, and not the effect once
\* both are trimmed.
NuanceIsDistinct(op) ==
    /\ op.nuance /= None
    /\ Strip(op.nuance) /= << >>
    /\ Strip(op.nuance) /= Strip(op.effect)

\* The record the last call was made on.
LastRecord == heap[DictLookup(outcome[last.reg].val.kernels, last.name)]

\* Line j of the operators section of a longform text.
OperatorLine(lines, j) == lines[8 + j]

\* C11: the longform line of an operator is its symbol, name and effect,
\* followed by " :: " and the nuance exactly when the nuance is distinct;
\* otherwise the line holds the effect text once and nothing after it.
C11_LongformShowsADistinctNuanceOnly ==
    (last.op = "activate" /\ last.format \in {"markdown", "rich"}) =>
        \A j \in 1..Len(LastRecord.operators) :
            LET op == LastRecord.operators[j]
                line == OperatorLine(last.out.val, j)
                head == <<"- ", op.symbol, " ", op.name, ": ">>
            IN  IF NuanceIsDistinct(op)
                THEN line = head \o op.effect \o <<" :: ">> \o op.nuance
                ELSE line = head \o op.effect /\ Occurrences(op.effect, line) = 1

\* C11's case: the longform text of a record with an operator whose nuance
\* is its effect between spaces, and one whose nuance is empty.
C11_Witness ==
    /\ last.op = "activate"
    /\ last.format = "markdown"
    /\ \E j \in 1..Len(LastRecord.operators) :
          LET op == LastRecord.operators[j]
          IN  op.nuance /= op.effect /\ Strip(op.nuance) = Strip(op.effect)
    /\ \E j \in 1..Len(LastRecord.operators) : LastRecord.operators[j].nuance = << >>

\* The three renderings: the bundle, the longform text and the symbolic text.
SupportedFormats == {"json", "markdown", "qhc"}

\* C12: activate with any other format name raises the unsupported-format
\* error and changes no record and no registry, and no format name returns
\* what another format name returns for the same record.
C12_NoFormatFallsBackToAnother ==
    [][(pc = "idle" /\ loads' = loads /\ last'.op = "activate")
       => /\ last'.format \notin SupportedFormats
               => /\ last'.out = Raise(<<"ValueError", "Unsupported activation format: ",
                                          last'.format>>)
                  /\ heap' = heap
                  /\ outcome' = outcome
          /\ \A format \in Formats \ {last'.format} :
                LET other == activate_of(
                                 source.kind,
                                 heap[DictLookup(outcome[last'.reg].val.kernels, last'.name)],
                                 format).out
                IN  (other.ok /\ last'.out.ok /\ (format = "json") = (last'.format = "json"))
                    => other /= last'.out]_vars

\* C17: load_kernels on a directory that does not exist raises
\* FileNotFoundError: it reads no document, creates no record and returns
\* no registry.
C17_MissingDirectoryFailsBeforeAnyRead ==
    (source.kind = "fs" /\ ~source.exists) =>
        /\ pc = "idle"
        /\ files = << >>
        /\ heap = << >>
        /\ Len(outcome) = loads
        /\ \A l \in 1..Len(outcome) :
              outcome[l] = Raise(<<"FileNotFoundError", "Kernel directory not found">>)

\* C17's case: a load of a directory that does not exist has ended.
C17_Witness ==
    /\ source.kind = "fs"
    /\ ~source.exists
    /\ loads = 1
    /\ Len(outcome) = 1
    /\ ~outcome[1].ok

\* C19: the catalog, and the catalog every returned registry refers to, has
\* the symbols it was populated with, each with its name and effect.
C19_CatalogIsNeverChanged ==
    /\ catalog = OPERATORS
    /\ \A l \in 1..Len(outcome) : outcome[l].ok => outcome[l].val.operators = OPERATORS

\* C19's case: after a build that resolved operators and returned, a record
\* was rendered.
C19_Witness ==
    /\ last.op = "activate"
    /\ last.out.ok
    /\ LastRecord.operators /= << >>
    /\ catalog = OPERATORS

\* C20: the operators and the execution steps of a record are those of its
\* raw definition, as many and in the same order, duplicates kept, each
\* operator with the symbol and the nuance of its reference.
C20_ResolutionKeepsTheDeclaredOrder ==
    \A oid \in DOMAIN heap :
        LET raw == Raw(oid[2])
            record == heap[oid]
            rawops == DictGetOr(raw, "operators", << >>)
        IN  /\ Len(record.operators) = Len(rawops)
            /\ \A i \in 1..Len(rawops) :
                  /\ record.operators[i].symbol = rawops[i]["symbol"]
                  /\ record.operators[i].nuance = DictGetOr(rawops[i], "nuance", None)
            /\ record.execution_steps = DictGetOr(raw, "execution_steps", << >>)

\* C20's case: a record resolved from a definition that names one symbol
\* twice and one step twice, and a record with two different steps.
C20_Witness ==
    /\ \E oid \in DOMAIN heap :
          /\ Len(heap[oid].operators) >= 2
          /\ heap[oid].operators[1].symbol = heap[oid].operators[2].symbol
          /\ heap[oid].operators[1].nuance /= heap[oid].operators[2].nuance
          /\ Len(heap[oid].execution_steps) = 2
          /\ heap[oid].execution_steps[1] = heap[oid].execution_steps[2]
    /\ \E oid \in DOMAIN heap :
          /\ Len(heap[oid].execution_steps) = 2
          /\ heap[oid].execution_steps[1] /= heap[oid].execution_steps[2]

\* C14: once the registry has been read, no operation changes the set of its
\* keys or the record a key returns.
C14_APublishedRegistryIsNeverMutated ==
    [][last.op \in {"list", "activate"}
       => /\ KeysOf(KERNELS') = KeysOf(KERNELS)
          /\ \A k \in KeysOf(KERNELS) : DictLookup(KERNELS', k) = DictLookup(KERNELS, k)]_vars

\* What a read call returns when it runs alone on the registry as built.
Alone(op, name, format) ==
    LET built == BuildAll(files, 1, << >>, << >>)
        registry == [kernels |-> built.kernels, operators |-> OPERATORS]
        found == KernelRegistry_get(registry, name)
    IN  IF op = "get" THEN found
        ELSE IF op = "all" THEN Ok(KernelRegistry_all(registry))
        ELSE IF ~found.ok THEN found
        ELSE AGIKernel_activate(built.heap[found.val], format).out

\* C15: however the calls of the readers interleave, each call returns what
\* it returns alone, and the mapping and the records stay as they were built.
C15_ConcurrentReadsAreIndependent ==
    /\ heap = BuildAll(files, 1, << >>, << >>).heap
    /\ outcome[1].val.kernels = BuildAll(files, 1, << >>, << >>).kernels
    /\ \A t \in Readers :
          readers[t].stage = "done"
          => readers[t].out = Alone(readers[t].op, readers[t].name, readers[t].format)

\* C15's case: one reader has rendered a record between the lookup and the
\* rendering of another reader of the same record.
C15_Witness ==
    \E t, u \in Readers :
        /\ t /= u
        /\ readers[t].stage = "found"
        /\ readers[u].stage = "done"
        /\ readers[u].op = "activate"
        /\ readers[u].out.ok
        /\ readers[u].oid = readers[t].oid

\* The records a registry holds.
RecordsOf(registry) == {registry.kernels[p][2] : p \in 1..Len(registry.kernels)}

\* The builds that returned a registry.
ReturnedBy == {l \in 1..Len(outcome) : outcome[l].ok}

\* The source was not changed from the start of build l to the start of build m.
Unchanged(l, m) == \A c \in changes : c < l \/ c >= m

\* C13: the registries of two builds share no record, and no step of a later
\* build, of a change of the source or of anything else changes the mapping
\* or a record of a registry that a build has returned.
C13_EveryLoadReturnsANewRegistry ==
    [][/\ \A l \in ReturnedBy :
             /\ outcome'[l] = outcome[l]
             /\ \A oid \in RecordsOf(outcome[l].val) : heap'[oid] = heap[oid]
       /\ \A l \in 1..Len(outcome') : \A m \in 1..Len(outcome') :
             (l /= m /\ outcome'[l].ok /\ outcome'[m].ok)
             => RecordsOf(outcome'[l].val) \cap RecordsOf(outcome'[m].val) = {}]_vars

\* C13's case: after a registry with records was returned and the source was
\* changed, a second build has failed, or has returned another registry.
C13_Witness ==
    /\ Len(outcome) = 2
    /\ outcome[1].ok
    /\ RecordsOf(outcome[1].val) /= {}
    /\ 1 \in changes
    /\ \/ ~outcome[2].ok /\ <<2, 1>> \in DOMAIN heap
       \/ outcome[2].ok /\ outcome[2].val.kernels /= << >>
                        /\ heap[<<2, 1>>] /= heap[<<1, 1>>]

\* Two mappings have the same keys in the same order, each key for the record
\* made from the same document, and the records are equal field for field.
SameRegistry(d, e) ==
    /\ Len(d) = Len(e)
    /\ \A p \in 1..Len(d) :
          /\ d[p][1] = e[p][1]
          /\ d[p][2][2] = e[p][2][2]
          /\ heap[d[p][2]] = heap[e[p][2]]

\* The file names of the directory, least first, and what each file holds.
Ascending(names, seq) ==
    /\ Len(seq) = Cardinality(names)
    /\ {seq[i] : i \in 1..Len(seq)} = names
    /\ \A i \in 1..Len(seq) : \A j \in 1..Len(seq) : i < j => seq[i] < seq[j]

\* C18: load_kernels takes the files in ascending order of their names and
\* registers their records in that order, and two loads of a directory that
\* was not changed in between end alike: the same exception, or registries
\* with the same keys in the same order for equal records.
C18_LoadsAreOrderedAndReproducible ==
    source.kind = "fs" =>
        /\ pc = "loop" => Ascending(source.names, defs)
        /\ \A l \in ReturnedBy :
              Unchanged(l, loads + 1) =>
                  LET names == CHOOSE seq \in [1..Cardinality(source.names) -> source.names] :
                                   Ascending(source.names, seq)
                      built == BuildAll([j \in 1..Len(names) |-> files[names[j]]],
                                        1, << >>, << >>)
                      d == outcome[l].val.kernels
                  IN  /\ Len(d) = Len(built.kernels)
                      /\ \A p \in 1..Len(d) :
                            /\ d[p][1] = built.kernels[p][1]
                            /\ d[p][2] = <<l, built.kernels[p][2][2]>>
                            /\ heap[d[p][2]] = built.heap[built.kernels[p][2]]
        /\ \A l \in 1..Len(outcome) : \A m \in 1..Len(outcome) :
              (l < m /\ Unchanged(l, m)) =>
                  IF outcome[l].ok
                  THEN /\ outcome[m].ok
                       /\ SameRegistry(outcome[l].val.kernels, outcome[m].val.kernels)
                  ELSE outcome[m] = outcome[l]

\* C18's case: two loads of an unchanged directory of two files whose
\* records share a key have returned.
C18_Witness ==
    /\ source.kind = "fs"
    /\ Cardinality(source.names) = 2
    /\ changes = {}
    /\ Len(outcome) = 2
    /\ outcome[1].ok
    /\ outcome[2].ok
    /\ Cardinality(RecordsOf(outcome[2].val)) = 2
    /\ \E oid \in RecordsOf(outcome[2].val) : Cardinality(KeysOfKernel(heap[oid])) = 2

\* C16: a definition that the inline source resolves to a record, the
\* directory source resolves too, to a record equal field for field.
C16_TheTwoSourcesAreInterchangeable ==
    source.kind = "fs" =>
        \A l \in 1..Len(outcome) :
            Unchanged(l, loads + 1) =>
                \A j \in 1..Len(Enumeration) :
                    (/\ WasRead(j)
                     /\ ResolveWith(Doc(j), OPERATORS).ok
                     /\ \A i \in 1..j : WasRead(i) /\ ResolveWith(Doc(i), OPERATORS).ok)
                    => /\ <<l, j>> \in DOMAIN heap
                       /\ heap[<<l, j>>] = ResolveWith(Doc(j), OPERATORS).val

\* The text of the number i followed by ". ", as a numbered list item starts.
Numeral(i) == <<"1. ", "2. ", "3. ", "4. ", "5. ">>[i]

\* The place of the line that is the heading alone in a text.
HeadingAt(lines, heading) == CHOOSE i \in 1..Len(lines) : lines[i] = <<heading>>

\* C22: in the longform text of a record with m steps, the line of step i
\* in declared order starts with the number i, for every i from 1 to m.
C22_LongformNumbersTheStepsFromOne ==
    (last.op = "activate" /\ last.format \in {"markdown", "rich"} /\ last.out.ok) =>
        LET at == HeadingAt(last.out.val, "### Execution")
        IN  \A i \in 1..Len(LastRecord.execution_steps) :
                last.out.val[at + i] = <<Numeral(i), LastRecord.execution_steps[i]>>

\* The line holds the placeholder glyph and nothing else after its label.
IsPlaceholder(line) == line /= << >> /\ line[Len(line)] = DASH

\* C23: in the longform text the operators and execution headings are always
\* present, and each of aliases, operators, execution steps and tags that is
\* empty is rendered as the placeholder glyph, never omitted or left blank.
C23_LongformRendersEveryEmptyCollection ==
    (last.op = "activate" /\ last.format \in {"markdown", "rich"} /\ last.out.ok) =>
        LET lines == last.out.val
        IN  /\ \E i \in 1..Len(lines) : lines[i] = <<"### Operators">>
            /\ \E i \in 1..Len(lines) : lines[i] = <<"### Execution">>
            /\ LastRecord.aliases = << >> => lines[3] = <<"**Aliases:** ", DASH>>
            /\ LastRecord.metadata.tags = << >>
                  => \E i \in 1..Len(lines) : lines[i] = <<"- Tags: ", DASH>>
            /\ LastRecord.operators = << >>
                  => IsPlaceholder(lines[HeadingAt(lines, "### Operators") + 1])
            /\ LastRecord.execution_steps = << >>
                  => IsPlaceholder(lines[HeadingAt(lines, "### Execution") + 1])

\* What the other implementation renders the record of the last call as.
OtherRendering ==
    Rendering(IF source.kind = "inline" THEN "fs" ELSE "inline", last.op, LastRecord)

\* C25: for equal records the package and the codex produce the same text,
\* placeholder glyphs and decorative delimiters included, in to_markdown,
\* in to_qhc and in the card rendering.
C25_PackageAndCodexEmitTheSameTokens ==
    last.op \in {"to_markdown", "to_qhc", "card"} => last.out.val = OtherRendering

\* The nuance is a string and not the empty one.
NonEmptyString(nuance) == nuance /= None /\ nuance /= << >>

\* The number of card lines of the operators before operator j.
RECURSIVE CardLinesBefore(_, _)
CardLinesBefore(operators, j) ==
    IF j <= 1 THEN 0
    ELSE CardLinesBefore(operators, j - 1)
         + (IF NonEmptyString(operators[j - 1].nuance) THEN 3 ELSE 2)

\* The number of lines of a block of n lines between two line ends.
BlockLen(n) == IF n = 0 THEN 1 ELSE n

\* C29a: in the symbolic text, operator j in declared order has the number
\* j on both of its lines, with its symbol, name and effect, and its first
\* line ends with " // " and the nuance exactly when the nuance is a
\* non-empty string, equal to the effect or not; step i has the number i.
C29_SymbolicText ==
    LET lines == last.out.val
        ops == LastRecord.operators
        steps == LastRecord.execution_steps
    IN  /\ Len(lines) = 16 + 2 * Len(ops) + 1 + Len(steps) + 6
                        + (IF LastRecord.metadata.tags /= << >> THEN 1 ELSE 0) + 1 + 1
        /\ \A j \in 1..Len(ops) :
              LET first == lines[16 + 2 * j - 1]
                  second == lines[16 + 2 * j]
              IN  /\ first[2] = j /\ first[4] = ops[j].symbol /\ first[6] = ops[j].name
                  /\ IF NonEmptyString(ops[j].nuance)
                     THEN SubSeq(first, 9, Len(first)) = <<" // ">> \o ops[j].nuance
                     ELSE Len(first) = 8
                  /\ second[2] = j
                  /\ SubSeq(second, 5, Len(second)) = ops[j].effect
        /\ \A i \in 1..Len(steps) :
              LET line == lines[16 + 2 * Len(ops) + 1 + i]
              IN  line[2] = i /\ line[4] = steps[i]

\* C29b: on a card, operator j in declared order has a line of its symbol
\* and name, a line of its effect, and a third line of its nuance exactly
\* when the nuance is a non-empty string; step i has the number i.
C29_Card ==
    LET lines == last.out.val
        ops == LastRecord.operators
        steps == LastRecord.execution_steps
        total == BlockLen(CardLinesBefore(ops, Len(ops) + 1))
    IN  /\ Len(lines) = 8 + total + 2 + BlockLen(Len(steps)) + 5
        /\ \A j \in 1..Len(ops) :
              LET at == 8 + CardLinesBefore(ops, j)
              IN  /\ lines[at + 1] = <<"    - ", ops[j].symbol, " ", ops[j].name>>
                  /\ Tail(lines[at + 2]) = <<ops[j].effect>>
                  /\ NonEmptyString(ops[j].nuance)
                        => lines[at + 3] = <<"      U+219D ", ops[j].nuance>>
        /\ \A i \in 1..Len(steps) :
              LET line == lines[8 + total + 2 + i]
              IN  line[2] = i /\ line[4] = steps[i]

C30_FieldsAreCheckedBeforeAnyLookup ==
    last.op = "validate" =>
        LET data == files[1]
            unknown == UnknownSymbols(data)
        IN  /\ ~Complete(data)
                  => /\ ~last.out.ok
                     /\ Len(last.out.exc) = 2
                     /\ last.out.exc[2] \in MissingRequired(data) \cup {"symbol"}
            /\ (Complete(data) /\ unknown /= << >>)
                  => last.out = Raise(<<"KeyError", "Unknown operator symbol: ", Head(unknown)>>)

\* C30's case: a definition that names the unknown symbols Q and Z and
\* lacks its style has been validated and failed for the style.
C30_Witness ==
    /\ last.op = "validate"
    /\ UnknownSymbols(files[1]) = <<"Q", "Z">>
    /\ MissingRequired(files[1]) = {"style"}
    /\ last.out = Raise(<<"KeyError", "style">>)

\* C26: right after register_kernel has registered the record R, every key
\* of R (its canonical name and its aliases) returns R whatever it returned
\* before, every other key returns what it returned before, and no key is
\* lost; the registration has no failing outcome.
C26_RegistrationIsLastWriterWins ==
    [][Len(registered') = Len(registered) + 1
       => LET n == Len(registered')
              R == registered'[n]
          IN  /\ KeysOf(KERNELS') = KeysOf(KERNELS) \cup KeysOfKernel(R)
              /\ \A k \in KeysOfKernel(R) : DictLookup(KERNELS', k) = n
              /\ \A k \in KeysOf(KERNELS) \ KeysOfKernel(R) :
                    DictLookup(KERNELS', k) = DictLookup(KERNELS, k)]_vars

\* C26's case: the second record registered took a key of the first, which
\* keeps another key.
C26_Witness ==
    /\ Len(registered) = 2
    /\ \E k \in KeysOfKernel(registered[1]) \cap KeysOfKernel(registered[2]) :
          DictLookup(KERNELS, k) = 2
    /\ \E k \in KeysOfKernel(registered[1]) \ KeysOfKernel(registered[2]) :
          DictLookup(KERNELS, k) = 1

\* The dict after register_kernel has been called with each of the records
\* seq, from record j on, in their order.
RECURSIVE RegisterAll(_, _, _)
RegisterAll(seq, j, d) ==
    IF j > Len(seq) THEN d ELSE RegisterAll(seq, j + 1, Register(d, seq[j], j))

\* The record each key of the dict d returns, d holding places in seq.
Mapping(d, seq) == [k \in KeysOf(d) |-> seq[DictLookup(d, k)]]

\* The orders in which n records can be enumerated.
Orders(n) == {f \in [1..n -> 1..n] : \A i, j \in 1..n : f[i] = f[j] => i = j}

\* No key of one record is a key of another.
DisjointKeys(seq) ==
    \A i, j \in 1..Len(seq) : i /= j => KeysOfKernel(seq[i]) \cap KeysOfKernel(seq[j]) = {}

\* C27: when the keys of the records registered are pairwise disjoint, every
\* order of registering them gives the same record for every key, each key
\* returning the one record it is a key of; the listing follows the order of
\* registration.
C27_DisjointKeysMakeTheOrderIrrelevant ==
    DisjointKeys(registered) =>
        LET n == Len(registered)
        IN  /\ \A order \in Orders(n) :
                  LET seq == [i \in 1..n |-> registered[order[i]]]
                  IN  Mapping(RegisterAll(seq, 1, << >>), seq) = Mapping(KERNELS, registered)
            /\ \A i \in 1..n : \A k \in KeysOfKernel(registered[i]) :
                  k \in KeysOf(KERNELS) /\ DictLookup(KERNELS, k) = i
            /\ last.op = "list" => last.out.val = [i \in 1..n |-> i]

\* C27's case: two records with disjoint keys, one with an alias, have been
\* registered.
C27_Witness ==
    /\ Len(registered) = 2
    /\ DisjointKeys(registered)
    /\ registered[2].aliases /= << >>
    /\ KeysOf(KERNELS) = Keys

\* C21: when a catalog entry is replaced or removed, every operator instance
\* of every record that exists keeps its symbol, name and effect, and a
\* bundle read afterwards shows them.
C21_ResolvedInstancesKeepTheirDefinition ==
    [][/\ catalog' /= catalog
          => \A oid \in DOMAIN heap :
                /\ oid \in DOMAIN heap'
                /\ Len(heap'[oid].operators) = Len(heap[oid].operators)
                /\ \A j \in 1..Len(heap[oid].operators) :
                      /\ heap'[oid].operators[j].symbol = heap[oid].operators[j].symbol
                      /\ heap'[oid].operators[j].name = heap[oid].operators[j].name
                      /\ heap'[oid].operators[j].effect = heap[oid].operators[j].effect
       /\ (last'.op = "activate" /\ last' /= last)
          => \A j \in 1..Len(last'.out.val.operators) :
                LET op == last'.out.val.operators[j]
                    l == DictLookup(outcome[last'.reg].val.kernels, last'.name)[1]
                IN  (\A c \in changes : c >= l)
                        => op.name = OPERATORS[op.symbol].name
                           /\ op.effect = OPERATORS[op.symbol].effect]_vars

\* C21's case: a record resolved before the catalog was edited holds an
\* instance whose symbol the catalog now lacks or defines otherwise, and its
\* bundle has been read.
C21_Witness ==
    /\ catalog /= OPERATORS
    /\ last.op = "activate"
    /\ LET record == heap[DictLookup(outcome[last.reg].val.kernels, last.name)]
       IN  \E j \in 1..Len(record.operators) :
              /\ record.operators[j].name = OPERATORS[record.operators[j].symbol].name
              /\ (record.operators[j].symbol \notin DOMAIN catalog
                  \/ catalog[record.operators[j].symbol].name = "Renamed")

\* The bundle that a record showing what self shows returns.
BundleOf(self) ==
    IF "metadata" \in DOMAIN self THEN AGIKernel_to_activation_bundle(self)
    ELSE InlineKernel_activate(self)

\* What the record shows now, and after the step.
RecordNow == View(objects.store, objects.kernel[1])

RecordNext == View(objects'.store, objects'.kernel[1])

\* C24: once to_kernel has returned, no change to the KernelConfig (to its
\* aliases, execution_steps, metadata tags or style) changes a field of the
\* record.
C24_TheRecordIsIndependentOfItsConfig ==
    [][("config" \in DOMAIN objects
        /\ objects.kernel /= << >>
        /\ View(objects'.store, objects'.config) /= View(objects.store, objects.config))
       => RecordNext = RecordNow]_vars

\* C28: a change to a bundle that activate("json") returned changes neither
\* the record nor any other bundle, and every call returns a bundle of what
\* the record holds, made of lists and dicts of its own.
C28_EveryBundleIsFreshlyBuilt ==
    [][/\ \A j \in 1..Len(objects.bundles) :
             View(objects'.store, objects'.bundles[j]) /= View(objects.store, objects.bundles[j])
                => /\ RecordNext = RecordNow
                   /\ \A i \in 1..Len(objects.bundles) \ {j} :
                         View(objects'.store, objects'.bundles[i])
                             = View(objects.store, objects.bundles[i])
       /\ Len(objects'.bundles) > Len(objects.bundles)
             => /\ RecordNext = RecordNow
                /\ View(objects'.store, objects'.bundles[Len(objects'.bundles)])
                       = BundleOf(RecordNow)
                /\ PlacesOf(objects'.store, objects'.bundles[Len(objects'.bundles)])
                       \cap 1..Len(objects.store) = {}]_vars

\* C28's case: the first of two bundles has had an alias appended, and the
\* second is still the bundle of the record.
C28_Witness ==
    /\ Len(objects.bundles) = 2
    /\ View(objects.store, objects.bundles[1]).aliases
           = Append(View(objects.store, objects.kernel[1]).aliases, "changed")
    /\ View(objects.store, objects.bundles[2]) = BundleOf(View(objects.store, objects.kernel[1]))

====
